---------------------------- MODULE Spec2Model ----------------------------
(***************************************************************************)
(* Model of the readykit (enferno) workspace access-control and billing    *)
(* synchronisation core:                                                   *)
(*   src/enferno/api/webhooks.py      stripe_webhook, chargebee_webhook    *)
(*   src/enferno/services/billing.py  HostedBilling, requires_pro_plan     *)
(*   src/enferno/portal/views.py      workspace-scoped portal endpoints    *)
(*   src/enferno/user/views.py        user management API                  *)
(*   src/enferno/user/models.py       User, Workspace, Membership, ...     *)
(*                                                                         *)
(* Python None is modelled per type: "None" for strings, 0 for ids and     *)
(* timestamps.                                                             *)
(***************************************************************************)
EXTENDS Integers, Sequences, FiniteSets, TLC

VARIABLES
    provider,        \* PROVIDER, read once at import (webhooks.py:11, billing.py:18)
    config,          \* current_app.config / current_app.debug, fixed per deployment
    ws,              \* Workspace table: id -> row
    billing_events,  \* BillingEvent table: sequence of rows, index = primary key
    now,             \* datetime.utcnow() clock
    dispatched,      \* history: event id -> number of requests that got past deduplication
    users,           \* User table: id -> row
    memberships,     \* Membership table: set of rows (workspace_id, user_id, role)
    api_keys,        \* APIKey table: sequence of rows, index = primary key
    sess,            \* flask session["current_workspace_id"] of each logged-in user
    user_sessions,   \* Session table (user_sessions): sequence of rows, index = primary key
    activities,      \* Activity table: set of rows (user_id, workspace_id, action, data)
    reqs,            \* concurrent webhook requests: per request its position and event
    last             \* the last request handled and its response

vars == <<provider, config, ws, billing_events, now, dispatched,
          users, memberships, api_keys, sess, user_sessions, activities,
          reqs, last>>

--------------------------------------------------------------------------
(* Bounds and value sets *)

MaxTime == 2          \* utcnow() stamps taken in one behaviour
MaxKeys == 2          \* APIKey rows created in one behaviour
MaxRequests == 2      \* webhook requests in flight at once
MaxMembers == 1       \* users created by add_workspace_member in one behaviour

NoneStr == "None"
NoneId == 0

WorkspaceIds == {1, 2}
UserIds == {1, 2}
EventIds == {"evt_1", "evt_2"}
Customers == {"cus_1", "cus_2"}

StripeTypes == {"checkout.session.completed", "customer.subscription.deleted",
                "invoice.payment_failed", "other"}
ChargebeeTypes == {"subscription_cancelled", "payment_failed", "other"}

\* metadata["workspace_id"] / pass_thru_content["workspace_id"]: absent, the
\* decimal string of an id, or a string int() rejects.
MetaAbsent == "absent"
MetaBad == "bad"
MetaValues == {MetaAbsent, MetaBad, "1", "2", "3"}

\* What stripe.checkout.Session.retrieve gives: an exception or a session. The
\* sessions tried are every (status, payment_status) pair for a session naming
\* workspace 1, and every customer and metadata value for the pairs with
\* status = complete.
FetchRaises == [raises |-> TRUE]
StripeSession(status, payment_status, customer, workspace_id) ==
    [raises |-> FALSE, status |-> status, payment_status |-> payment_status,
     customer |-> customer, workspace_id |-> workspace_id]
StripeSessions ==
    {StripeSession(s, p, "cus_1", "1") :
        s \in {"open", "complete"}, p \in {"paid", "unpaid", "no_payment_required"}}
    \cup {StripeSession("complete", p, c, m) :
        p \in {"paid", "no_payment_required"}, c \in Customers, m \in MetaValues}

\* What cb.HostedPage.retrieve gives: an exception or a hosted page.
\* customer = NoneStr: content carries no customer.
ChargebeePage(state, customer, workspace_id) ==
    [raises |-> FALSE, state |-> state, customer |-> customer,
     workspace_id |-> workspace_id]
ChargebeePages ==
    {ChargebeePage(s, "cus_1", "1") : s \in {"requested", "succeeded", "cancelled"}}
    \cup {ChargebeePage("succeeded", c, m) :
        c \in Customers \cup {NoneStr}, m \in MetaValues}

--------------------------------------------------------------------------
(* Entity store helpers *)

\* int(workspace_id) of billing.py:92 / :200; 0 stands for ValueError.
ParseInt(s) ==
    CASE s = "1" -> 1
      [] s = "2" -> 2
      [] s = "3" -> 3
      [] OTHER -> 0

\* Mutant: every plan taken for pro.
is_pro_any_plan(w) == TRUE

\* Workspace.is_pro
is_pro(w) == w.plan = "pro"

\* db.select(Workspace).where(Workspace.billing_customer_id == customer_id);
\* comparing with None selects the rows whose column IS NULL.
WorkspacesByCustomer(table, customer_id) ==
    {w \in DOMAIN table : table[w].billing_customer_id = customer_id}

\* Mutant: event_id without its unique constraint.
BillingEventRejectedNotUnique(rows, event_id) == event_id = NoneStr

\* BillingEvent.event_id: unique=True, nullable=False
BillingEventRejected(rows, event_id) ==
    \/ event_id = NoneStr
    \/ \E i \in DOMAIN rows : rows[i].event_id = event_id

RowsFor(rows, event_id) == {i \in DOMAIN rows : rows[i].event_id = event_id}

--------------------------------------------------------------------------
(* Responses *)

\* op: the endpoint; status: the HTTP status; user: the caller; workspace: the
\* workspace id the request named or the handler returned; outcome: the branch
\* the handler took; data: the ids of the rows the response body carries.
RespData(op, status, user, workspace, outcome, data) ==
    [op |-> op, status |-> status, user |-> user, workspace |-> workspace,
     outcome |-> outcome, data |-> data]

Resp(op, status, user, workspace, outcome) ==
    RespData(op, status, user, workspace, outcome, {})

NoRequest == Resp("none", 0, NoneId, NoneId, "none")

--------------------------------------------------------------------------
(* Billing Synchronizer: HostedBilling.handle_successful_payment *)

\* What one call does: the Workspace table after it, the value returned (NoneId
\* for None), whether an exception left the function, the branch taken.
Hsp(table, ret, raised, path) ==
    [ws |-> table, ret |-> ret, raised |-> raised, path |-> path]

\* The upgrade write of billing.py:99-104 / :207-213
UpgradeRow(row, customer, t) ==
    [row EXCEPT !.plan = "pro", !.billing_customer_id = customer, !.upgraded_at = t]

\* Mutant: the payment_status test of billing.py:82 left out.
StripeSessionSucceededAnyPayment(session) == session.status = "complete"

\* billing.py:76-86: the session reached the terminal success state
StripeSessionSucceeded(session) ==
    /\ session.status = "complete"
    /\ session.payment_status \in {"paid", "no_payment_required"}

\* Mutant: the state test of billing.py:189 left out.
ChargebeePageAnyState(page) == TRUE

\* billing.py:189
ChargebeePageSucceeded(page) == page.state = "succeeded"

\* Mutant: the early return of billing.py:96-97 left out.
AlreadyUpgradedIgnored(row) == FALSE

\* billing.py:96-97: an already-pro workspace is returned without a write
AlreadyUpgraded(row) == is_pro(row)

\* Mutant: the upgrade's field writes left standing after the failed commit.
UpgradeLeftPending(table, pending) == pending

\* billing.py:105-110 / :214-219: db.session.rollback() drops the writes of
\* the try block
UpgradeRolledBack(table, pending) == table

\* billing.py:88-110, shared by both providers from the metadata on
UpgradeFromMetadata(table, meta, customer, write_ok, t) ==
    IF meta = MetaAbsent THEN Hsp(table, NoneId, FALSE, "no_metadata")
    ELSE IF ParseInt(meta) = 0 THEN Hsp(table, NoneId, TRUE, "bad_metadata")
    ELSE IF ParseInt(meta) \notin DOMAIN table
         THEN Hsp(table, NoneId, FALSE, "no_workspace")
    ELSE LET id == ParseInt(meta) IN
         IF AlreadyUpgraded(table[id]) THEN Hsp(table, id, FALSE, "already_pro")
         ELSE IF write_ok
              THEN Hsp([table EXCEPT ![id] = UpgradeRow(table[id], customer, t)],
                       id, FALSE, "upgraded")
              ELSE Hsp(UpgradeRolledBack(
                           table, [table EXCEPT ![id] = UpgradeRow(table[id], customer, t)]),
                       NoneId, FALSE, "rolled_back")

\* billing.py:67-110
StripeHandleSuccessfulPayment(table, fetched, commit_ok, t) ==
    IF ~config.api_key THEN Hsp(table, NoneId, TRUE, "not_configured")
    ELSE IF fetched.raises THEN Hsp(table, NoneId, TRUE, "fetch_failed")
    ELSE IF ~StripeSessionSucceeded(fetched)
         THEN Hsp(table, NoneId, FALSE, "not_succeeded")
    ELSE UpgradeFromMetadata(table, fetched.workspace_id, fetched.customer,
                             commit_ok, t)

\* billing.py:179-219; content["customer"]["id"] raises inside the try when the
\* content carries no customer, which the except turns into a rollback.
ChargebeeHandleSuccessfulPayment(table, fetched, commit_ok, t) ==
    IF ~config.api_key THEN Hsp(table, NoneId, TRUE, "not_configured")
    ELSE IF fetched.raises THEN Hsp(table, NoneId, TRUE, "fetch_failed")
    ELSE IF ~ChargebeePageSucceeded(fetched)
         THEN Hsp(table, NoneId, FALSE, "not_succeeded")
    ELSE UpgradeFromMetadata(table, fetched.workspace_id, fetched.customer,
                             commit_ok /\ fetched.customer # NoneStr, t)

Fetchable == IF provider = "stripe" THEN StripeSessions \cup {FetchRaises}
             ELSE ChargebeePages \cup {FetchRaises}

\* What the commit of billing.py:103 / :212 can meet in a call that fetches f:
\* success or an error, when f leads the call to a workspace; no commit is
\* attempted otherwise.
CommitOutcomes(f) ==
    IF ~f.raises /\ ParseInt(f.workspace_id) \in WorkspaceIds THEN BOOLEAN ELSE {TRUE}

handle_successful_payment(table, fetched, commit_ok, t) ==
    IF provider = "stripe"
    THEN StripeHandleSuccessfulPayment(table, fetched, commit_ok, t)
    ELSE ChargebeeHandleSuccessfulPayment(table, fetched, commit_ok, t)

--------------------------------------------------------------------------
(* Webhook Ingestion Pipeline *)

\* What the dispatch part of a webhook request does: the Workspace table after
\* it and whether an exception left the handler.
Dispatch(table, raised, branch) == [ws |-> table, raised |-> raised, branch |-> branch]

\* Mutant: the downgrade also forgets the customer.
DowngradeRowDetached(row) == [row EXCEPT !.plan = "free", !.billing_customer_id = NoneStr]

\* webhooks.py:65, 81 / :145, 161: workspace.plan = "free"
DowngradeRow(row) == [row EXCEPT !.plan = "free"]

\* Mutant: the cancellation branch without its write.
DowngradeOnCancelSkipped(table, customer_id, commit_ok) ==
    Dispatch(table, FALSE, "cancel")

\* webhooks.py:60-69 / :140-149: subscription cancelled
DowngradeOnCancel(table, customer_id, commit_ok) ==
    LET found == WorkspacesByCustomer(table, customer_id) IN
    IF Cardinality(found) > 1 THEN Dispatch(table, TRUE, "cancel")  \* scalar_one_or_none
    ELSE IF found = {} THEN Dispatch(table, FALSE, "cancel")
    ELSE LET w == CHOOSE x \in found : TRUE IN
         IF commit_ok
         THEN Dispatch([table EXCEPT ![w] = DowngradeRow(table[w])], FALSE, "cancel")
         ELSE Dispatch(table, TRUE, "cancel")

\* Mutant: the payment-failed branch without its write.
DowngradeOnPaymentFailedSkipped(table, customer_id, commit_ok) ==
    Dispatch(table, FALSE, "payment_failed")

\* webhooks.py:76-85 / :156-165: payment failed
DowngradeOnPaymentFailed(table, customer_id, commit_ok) ==
    LET found == WorkspacesByCustomer(table, customer_id) IN
    IF Cardinality(found) > 1 THEN Dispatch(table, TRUE, "payment_failed")
    ELSE IF found = {} THEN Dispatch(table, FALSE, "payment_failed")
    ELSE LET w == CHOOSE x \in found : TRUE IN
         IF ~is_pro(table[w]) THEN Dispatch(table, FALSE, "payment_failed")
         ELSE IF commit_ok
              THEN Dispatch([table EXCEPT ![w] = DowngradeRow(table[w])], FALSE,
                            "payment_failed")
              ELSE Dispatch(table, TRUE, "payment_failed")

\* webhooks.py:47-85
StripeDispatch(table, event, fetched, commit_ok, t) ==
    IF event.type = "checkout.session.completed"
    THEN LET r == StripeHandleSuccessfulPayment(table, fetched, commit_ok, t)
         IN Dispatch(r.ws, r.raised, "checkout")
    ELSE IF event.type = "customer.subscription.deleted"
    THEN DowngradeOnCancel(table, event.customer, commit_ok)
    ELSE IF event.type = "invoice.payment_failed"
    THEN DowngradeOnPaymentFailed(table, event.customer, commit_ok)
    ELSE Dispatch(table, FALSE, "none")

\* Mutant: the last branch taken by every event type that is not a cancellation.
ChargebeeDispatchElse(table, event, commit_ok) ==
    IF event.type = "subscription_cancelled"
    THEN DowngradeOnCancel(table, event.customer, commit_ok)
    ELSE DowngradeOnPaymentFailed(table, event.customer, commit_ok)

\* webhooks.py:132-165
ChargebeeDispatch(table, event, commit_ok) ==
    IF event.type = "subscription_cancelled"
    THEN DowngradeOnCancel(table, event.customer, commit_ok)
    ELSE IF event.type = "payment_failed"
    THEN DowngradeOnPaymentFailed(table, event.customer, commit_ok)
    ELSE Dispatch(table, FALSE, "none")

\* Mutant: the row written without the event's id.
BillingEventRowUnkeyed(event) ==
    [event_id |-> NoneStr, event_type |-> event.type, provider |-> provider]

\* The row db.session.add(BillingEvent(...)) adds
BillingEventRow(event) ==
    [event_id |-> event.id, event_type |-> event.type, provider |-> provider]

\* What one webhook request does: the two tables after it, the response, the
\* branch taken, and the event id it dispatched (NoneStr when it dispatched none).
Handled(table, rows, status, outcome, dispatched_id) ==
    [ws |-> table, billing_events |-> rows, status |-> status, outcome |-> outcome,
     dispatched_id |-> dispatched_id]

\* A webhook request and what the handler's calls meet while it runs.
\*   auth      Stripe: "good" iff construct_event accepts signature and payload
\*             ("bad": the signature does not verify; "unparseable": the payload
\*             does not parse);
\*             Chargebee: the Basic credentials are absent ("none"), equal to the
\*             configured ones ("good"), or differ in the username
\*             ("bad_username"), the password ("bad_password") or both ("bad")
\*   has_body  Chargebee: request.get_json() gives an event
\*   event     the event; a field the handler does not read for the event's type
\*             is left at None
\*   insert_ok the commit of the BillingEvent insert meets no error other than
\*             a constraint violation
\*   fetched   what the provider returns for the session the event names
\*   commit_ok the commit of the handler's workspace write succeeds
WebhookInput(auth, has_body, id, type, customer, insert_ok, fetched, commit_ok) ==
    [auth |-> auth, has_body |-> has_body,
     event |-> [id |-> id, type |-> type, customer |-> customer],
     insert_ok |-> insert_ok, fetched |-> fetched, commit_ok |-> commit_ok]

\* webhooks.py:34-87 / :117-167: a verified event is recorded, and dispatched
\* unless the insert fails. d is the dispatch of the event on table.
Ingest(table, rows, in, d) ==
    IF BillingEventRejected(rows, in.event.id)
    THEN \* IntegrityError: rollback, "OK", 200
         Handled(table, rows, 200,
                 IF in.event.id = NoneStr THEN "null_id" ELSE "duplicate", NoneStr)
    ELSE IF ~in.insert_ok
    THEN \* another error, which nothing catches
         Handled(table, rows, 500, "insert_failed", NoneStr)
    ELSE Handled(d.ws, Append(rows, BillingEventRow(in.event)),
                 IF d.raised THEN 500 ELSE 200,
                 IF d.raised THEN "dispatch_error" ELSE d.branch, in.event.id)

\* Mutant: the event built from the payload without verification.
construct_event_unverified(auth) == TRUE

\* webhooks.py:28-32: stripe.Webhook.construct_event returns the event iff the
\* payload parses and the signature header verifies against the secret
construct_event(auth) == auth = "good"

\* webhooks.py:18-87
stripe_webhook(table, rows, in, t) ==
    IF ~config.webhook_secret THEN Handled(table, rows, 500, "unverified", NoneStr)
    ELSE IF ~construct_event(in.auth)
    THEN Handled(table, rows, 400, "unverified", NoneStr)
    ELSE Ingest(table, rows, in,
                StripeDispatch(table, in.event, in.fetched, in.commit_ok, t))

\* request.authorization against the configured credentials
UsernameMatches(auth) == auth \in {"good", "bad_password"}
PasswordMatches(auth) == auth \in {"good", "bad_username"}

\* Mutant: the password comparison of webhooks.py:103 left out.
verify_chargebee_auth_username_only(auth) ==
    IF ~config.webhook_username \/ ~config.webhook_password THEN config.debug
    ELSE auth # "none" /\ UsernameMatches(auth)

\* webhooks.py:91-105
verify_chargebee_auth(auth) ==
    IF ~config.webhook_username \/ ~config.webhook_password THEN config.debug
    ELSE auth # "none" /\ UsernameMatches(auth) /\ PasswordMatches(auth)

\* webhooks.py:107-167
chargebee_webhook(table, rows, in) ==
    IF ~verify_chargebee_auth(in.auth)
    THEN Handled(table, rows, 401, "unverified", NoneStr)
    ELSE IF ~in.has_body THEN Handled(table, rows, 400, "unverified", NoneStr)
    ELSE Ingest(table, rows, in, ChargebeeDispatch(table, in.event, in.commit_ok))

\* The requests a provider (or anyone else) can send.
DeliveredIds == EventIds \cup {NoneStr}

\* Verified requests whose event is of one of the types and names a customer
\* (or none).
CustomerEvents(types) ==
    {WebhookInput("good", TRUE, i, t, cu, TRUE, FetchRaises, c) :
        i \in DeliveredIds, t \in types, cu \in Customers \cup {NoneStr},
        c \in BOOLEAN}

StripeInputs ==
    {WebhookInput("bad", TRUE, NoneStr, "other", NoneStr, TRUE, FetchRaises, TRUE)}
    \cup {WebhookInput("good", TRUE, i, "other", NoneStr, FALSE, FetchRaises, TRUE) :
            i \in EventIds}
    \cup {WebhookInput("good", TRUE, NoneStr, "checkout.session.completed", NoneStr,
                        TRUE, FetchRaises, TRUE)}
    \cup UNION {{WebhookInput("good", TRUE, i, "checkout.session.completed", NoneStr,
                               TRUE, f, c) : i \in EventIds, c \in CommitOutcomes(f)} :
                 f \in (IF now < MaxTime THEN Fetchable ELSE {})}
    \cup CustomerEvents(StripeTypes \ {"checkout.session.completed"})

ChargebeeInputs ==
    {WebhookInput(a, TRUE, NoneStr, "other", NoneStr, TRUE, FetchRaises, TRUE) :
            a \in {"none", "bad"}}
    \cup {WebhookInput("good", FALSE, NoneStr, "other", NoneStr, TRUE, FetchRaises, TRUE)}
    \cup {WebhookInput("good", TRUE, i, "other", NoneStr, FALSE, FetchRaises, TRUE) :
            i \in EventIds}
    \cup CustomerEvents(ChargebeeTypes)

\* A dispatch that stamped upgraded_at consumed one clock reading.
Stamped(before, after) ==
    \E w \in DOMAIN before : after[w].upgraded_at # before[w].upgraded_at

\* The request is served: its writes reach the tables, its response the caller.
Deliver(r) ==
    /\ ws' = r.ws
    /\ billing_events' = r.billing_events
    /\ dispatched' = IF r.dispatched_id = NoneStr THEN dispatched
                     ELSE [dispatched EXCEPT ![r.dispatched_id] = @ + 1]
    /\ now' = IF Stamped(ws, r.ws) THEN now + 1 ELSE now
    /\ last' = Resp("webhook", r.status, NoneId, NoneId, r.outcome)
    /\ UNCHANGED <<provider, config, users, memberships, api_keys, sess, user_sessions,
                   reqs, activities>>

StripeDelivery(in) ==
    /\ provider = "stripe"
    /\ Deliver(stripe_webhook(ws, billing_events, in, now + 1))

ChargebeeDelivery(in) ==
    /\ provider = "chargebee"
    /\ Deliver(chargebee_webhook(ws, billing_events, in))

StripeWebhook == \E in \in StripeInputs : StripeDelivery(in)

ChargebeeWebhook == \E in \in ChargebeeInputs : ChargebeeDelivery(in)

--------------------------------------------------------------------------
(* Billing redirect endpoint: GET /billing/success *)

\* views.py:557-574: the Workspace table after the request and the response;
\* any session-authenticated user may call it.
billing_success(table, u, has_id, fetched, commit_ok, t) ==
    IF ~has_id
    THEN [ws |-> table, resp |-> Resp("billing_success", 302, u, NoneId, "dashboard")]
    ELSE LET r == handle_successful_payment(table, fetched, commit_ok, t) IN
         [ws |-> r.ws, resp |-> Resp("billing_success", 200, u, r.ret, r.path)]

BillingSuccessCall(u, has_id, fetched, commit_ok) ==
    /\ now < MaxTime
    /\ LET r == billing_success(ws, u, has_id, fetched, commit_ok, now + 1) IN
       /\ ws' = r.ws
       /\ now' = IF Stamped(ws, r.ws) THEN now + 1 ELSE now
       /\ last' = r.resp
    /\ UNCHANGED <<provider, config, billing_events, dispatched,
                   users, memberships, api_keys, sess, user_sessions, reqs, activities>>

BillingSuccess ==
    \E u \in DOMAIN users :
        \/ BillingSuccessCall(u, FALSE, FetchRaises, TRUE)
        \/ \E fetched \in Fetchable : \E commit_ok \in CommitOutcomes(fetched) :
              BillingSuccessCall(u, TRUE, fetched, commit_ok)

--------------------------------------------------------------------------
(* Initial state *)

\* app.config and app.debug, reduced to whether each value is set:
\* STRIPE_WEBHOOK_SECRET, CHARGEBEE_WEBHOOK_USERNAME, CHARGEBEE_WEBHOOK_PASSWORD,
\* the provider's API key.
AppConfig(secret, username, password, api_key, debug) ==
    [webhook_secret |-> secret, webhook_username |-> username,
     webhook_password |-> password, api_key |-> api_key, debug |-> debug]

StripeConfigs == {AppConfig(s, FALSE, FALSE, k, FALSE) : s \in BOOLEAN, k \in BOOLEAN}
\* The two Chargebee credentials set together or not at all, outside debug mode.
ChargebeeConfigs ==
    {AppConfig(FALSE, c, c, k, FALSE) : c \in BOOLEAN, k \in BOOLEAN}

FreeWorkspace(owner) ==
    [owner_id |-> owner, name |-> "n0", plan |-> "free",
     billing_customer_id |-> NoneStr, upgraded_at |-> 0]

UserRow(superadmin) == [is_superadmin |-> superadmin, tag |-> "t0"]

InitBilling ==
    /\ provider \in {"stripe", "chargebee"}
    /\ config \in (IF provider = "stripe" THEN StripeConfigs ELSE ChargebeeConfigs)
    /\ ws = [w \in WorkspaceIds |-> FreeWorkspace(w)]
    /\ billing_events = <<>>
    /\ now = 0
    /\ dispatched = [e \in EventIds |-> 0]
    /\ users = [u \in {1} |-> UserRow(TRUE)]
    /\ memberships = {}
    /\ api_keys = <<>>
    /\ sess = [u \in UserIds |-> NoneId]
    /\ user_sessions = <<>>
    /\ activities = {}
    /\ reqs = <<>>
    /\ last = NoRequest

Init == InitBilling

Next == StripeWebhook \/ ChargebeeWebhook \/ BillingSuccess

Spec == Init /\ [][Next]_vars

--------------------------------------------------------------------------
(* Concurrent webhook requests (SpecRace) *)
(* Each request runs on its own worker with its own db.session; the steps  *)
(* of a request are its database statements, and the steps of different    *)
(* requests interleave freely.                                             *)

Requests == 1..MaxRequests

Idle == [pc |-> "idle", in |-> NoneStr, status |-> 0, outcome |-> "none"]

\* The verified events the racing requests carry: every event id and type, for
\* customer cus_1, the provider returning a paid session that names workspace 1.
RaceInputs ==
    LET paid == StripeSession("complete", "paid", "cus_1", "1") IN
    IF provider = "stripe"
    THEN {WebhookInput("good", TRUE, i, t, "cus_1", TRUE, paid, TRUE) :
            i \in EventIds, t \in StripeTypes}
    ELSE {WebhookInput("good", TRUE, i, t, "cus_1", TRUE, FetchRaises, TRUE) :
            i \in EventIds, t \in ChargebeeTypes}

RaceDispatch(table, in, t) ==
    IF provider = "stripe"
    THEN StripeDispatch(table, in.event, in.fetched, in.commit_ok, t)
    ELSE ChargebeeDispatch(table, in.event, in.commit_ok)

\* Mutant: uniqueness looked up by the statement only, not enforced by the store
\* when the transaction commits.
StoreRejectsCommitUnchecked(rows, event_id) == FALSE

\* models.py:242: the store enforces unique(event_id) when the transaction
\* commits, against the rows committed by then.
StoreRejectsCommit(rows, event_id) == BillingEventRejected(rows, event_id)

\* webhooks.py:20-35 / :109-118: a verified request arrives
Arrive(r) ==
    /\ reqs[r].pc = "idle"
    /\ \E in \in RaceInputs : reqs' = [reqs EXCEPT ![r] = [@ EXCEPT !.pc = "insert", !.in = in]]
    /\ UNCHANGED <<provider, config, users, memberships, api_keys, sess, user_sessions, last,
                   ws, billing_events, now, dispatched, activities>>

\* webhooks.py:36-45 / :121-130: the INSERT of db.session.add + commit. A row
\* with the event id committed by another request fails it at once.
InsertEvent(r) ==
    /\ reqs[r].pc = "insert"
    /\ IF BillingEventRejected(billing_events, reqs[r].in.event.id)
       THEN reqs' = [reqs EXCEPT ![r] = [@ EXCEPT !.pc = "done", !.status = 200,
                                                  !.outcome = "duplicate"]]
       ELSE reqs' = [reqs EXCEPT ![r] = [@ EXCEPT !.pc = "commit"]]
    /\ UNCHANGED <<provider, config, users, memberships, api_keys, sess, user_sessions, last,
                   ws, billing_events, now, dispatched, activities>>

\* webhooks.py:42-45 / :127-130: the COMMIT; the row becomes visible, unless a
\* request that inserted the same event id committed in between.
CommitEvent(r) ==
    /\ reqs[r].pc = "commit"
    /\ IF StoreRejectsCommit(billing_events, reqs[r].in.event.id)
       THEN /\ reqs' = [reqs EXCEPT ![r] = [@ EXCEPT !.pc = "done", !.status = 200,
                                                     !.outcome = "duplicate_at_commit"]]
            /\ UNCHANGED billing_events
       ELSE /\ reqs' = [reqs EXCEPT ![r] = [@ EXCEPT !.pc = "dispatch"]]
            /\ billing_events' = Append(billing_events, BillingEventRow(reqs[r].in.event))
    /\ UNCHANGED <<provider, config, users, memberships, api_keys, sess, user_sessions, last,
                   ws, now, dispatched, activities>>

\* webhooks.py:47-87 / :132-167
DispatchEvent(r) ==
    /\ reqs[r].pc = "dispatch"
    /\ now < MaxTime
    /\ LET d == RaceDispatch(ws, reqs[r].in, now + 1) IN
       /\ ws' = d.ws
       /\ now' = IF Stamped(ws, d.ws) THEN now + 1 ELSE now
       /\ dispatched' = [dispatched EXCEPT ![reqs[r].in.event.id] = @ + 1]
       /\ reqs' = [reqs EXCEPT ![r] = [@ EXCEPT !.pc = "done",
                                               !.status = IF d.raised THEN 500 ELSE 200,
                                               !.outcome = d.branch]]
    /\ UNCHANGED <<provider, config, users, memberships, api_keys, sess, user_sessions, last,
                   billing_events, activities>>

InitRace ==
    /\ provider \in {"stripe", "chargebee"}
    /\ config = AppConfig(TRUE, TRUE, TRUE, TRUE, FALSE)
    /\ ws = [w \in WorkspaceIds |-> FreeWorkspace(w)]
    /\ billing_events = <<>>
    /\ now = 0
    /\ dispatched = [e \in EventIds |-> 0]
    /\ users = [u \in {1} |-> UserRow(TRUE)]
    /\ memberships = {}
    /\ api_keys = <<>>
    /\ sess = [u \in UserIds |-> NoneId]
    /\ user_sessions = <<>>
    /\ activities = {}
    /\ reqs = [r \in Requests |-> Idle]
    /\ last = NoRequest

NextRace ==
    \E r \in Requests : Arrive(r) \/ InsertEvent(r) \/ CommitEvent(r) \/ DispatchEvent(r)

SpecRace == InitRace /\ [][NextRace]_vars

--------------------------------------------------------------------------
(* Access Resolver, Workspace Authorization Gate, portal endpoints         *)
(* (SpecAccess)                                                            *)

Roles == {"admin", "member"}

MembershipRow(u, w, role) == [user_id |-> u, workspace_id |-> w, role |-> role]

\* models.py:136-143
get_workspace_role(rows, u, w) ==
    LET found == {m \in rows : m.user_id = u /\ m.workspace_id = w} IN
    IF found = {} THEN NoneStr ELSE (CHOOSE m \in found : TRUE).role

\* Role ordering of the gate: member < admin, owner at least admin.
RoleSuffices(role, min_role) ==
    IF min_role = "admin"
    THEN role \in {"admin", "owner"}
    ELSE role \in {"member", "admin", "owner"}

Gate(status, workspace, role) ==
    [status |-> status, workspace |-> workspace, role |-> role]

\* The gate in front of a handler: the workspace of the path, else the one the
\* session selected; no workspace -> 404; a superadmin passes at admin level;
\* no role, or a role below the minimum -> 403.
require_workspace_access(u, path_w, min_role) ==
    LET w == IF path_w # NoneId THEN path_w ELSE sess[u] IN
    IF w \notin DOMAIN ws
    THEN Gate(404, NoneId, NoneStr)
    ELSE IF users[u].is_superadmin
    THEN Gate(200, w, "admin")
    ELSE LET role == get_workspace_role(memberships, u, w) IN
         IF role = NoneStr \/ ~RoleSuffices(role, min_role)
         THEN Gate(403, w, role)
         ELSE Gate(200, w, role)

\* Mutant: the key-creating handler behind the member-level gate.
CreateApiKeyRoleMember == "member"

ListApiKeysRole == "member"         \* views.py:117
CreateApiKeyRole == "admin"         \* views.py:129
RevokeApiKeyRole == "admin"         \* views.py:152
UpgradeWorkspaceRole == "admin"     \* views.py:506
BillingPortalRole == "admin"        \* views.py:531

KeyIds == 1..MaxKeys

\* The columns the handlers read: workspace_id, is_active (id is the position).
APIKeyRow(w) == [workspace_id |-> w, is_active |-> TRUE]

Served(keys, resp) == [keys |-> keys, resp |-> resp]

\* views.py:116-125
list_api_keys(keys, u, w) ==
    LET g == require_workspace_access(u, w, ListApiKeysRole) IN
    IF g.status # 200
    THEN Served(keys, Resp("list_api_keys", g.status, u, g.workspace, "denied"))
    ELSE Served(keys, RespData("list_api_keys", 200, u, w, "listed",
                    {k \in DOMAIN keys : keys[k].workspace_id = w /\ keys[k].is_active}))

\* views.py:128-148
create_api_key(keys, u, w, has_name) ==
    LET g == require_workspace_access(u, w, CreateApiKeyRole) IN
    IF g.status # 200
    THEN Served(keys, Resp("create_api_key", g.status, u, g.workspace, "denied"))
    ELSE IF ~has_name
    THEN Served(keys, Resp("create_api_key", 400, u, w, "name_required"))
    ELSE Served(Append(keys, APIKeyRow(w)),
                RespData("create_api_key", 200, u, w, "created", {Len(keys) + 1}))

\* Mutant: the flag left as it was.
RevokedStillActive(row) == row

\* views.py:164: api_key.is_active = False
Revoked(row) == [row EXCEPT !.is_active = FALSE]

\* views.py:151-166
revoke_api_key(keys, u, w, key_id) ==
    LET g == require_workspace_access(u, w, RevokeApiKeyRole) IN
    IF g.status # 200
    THEN Served(keys, Resp("revoke_api_key", g.status, u, g.workspace, "denied"))
    ELSE IF key_id \notin DOMAIN keys \/ keys[key_id].workspace_id # w
    THEN Served(keys, Resp("revoke_api_key", 404, u, w, "key_not_found"))
    ELSE Served([keys EXCEPT ![key_id] = Revoked(keys[key_id])],
                Resp("revoke_api_key", 200, u, w, "revoked"))

\* Mutant: a pro workspace is sent to the billing portal whether or not it
\* has a customer id.
upgrade_workspace_always_portal(u) ==
    LET g == require_workspace_access(u, NoneId, UpgradeWorkspaceRole) IN
    IF g.status # 200
    THEN Resp("upgrade_workspace", g.status, u, g.workspace, "denied")
    ELSE IF is_pro(ws[g.workspace])
    THEN Resp("upgrade_workspace", 302, u, g.workspace, "to_billing_portal")
    ELSE IF ~config.api_key
    THEN Resp("upgrade_workspace", 500, u, g.workspace, "checkout_error")
    ELSE Resp("upgrade_workspace", 302, u, g.workspace, "to_checkout")

\* views.py:505-527
upgrade_workspace(u) ==
    LET g == require_workspace_access(u, NoneId, UpgradeWorkspaceRole) IN
    IF g.status # 200
    THEN Resp("upgrade_workspace", g.status, u, g.workspace, "denied")
    ELSE IF is_pro(ws[g.workspace])
    THEN Resp("upgrade_workspace", 302, u, g.workspace,
              IF ws[g.workspace].billing_customer_id # NoneStr
              THEN "to_billing_portal" ELSE "to_settings")
    ELSE IF ~config.api_key
    THEN Resp("upgrade_workspace", 500, u, g.workspace, "checkout_error")
    ELSE Resp("upgrade_workspace", 302, u, g.workspace, "to_checkout")

\* views.py:530-554
billing_portal(u) ==
    LET g == require_workspace_access(u, NoneId, BillingPortalRole) IN
    IF g.status # 200
    THEN Resp("billing_portal", g.status, u, g.workspace, "denied")
    ELSE IF ws[g.workspace].billing_customer_id = NoneStr
    THEN Resp("billing_portal", 302, u, g.workspace, "to_upgrade")
    ELSE IF ~config.api_key
    THEN Resp("billing_portal", 200, u, g.workspace, "portal_error")
    ELSE Resp("billing_portal", 302, u, g.workspace, "to_portal")

KeysServed(r) ==
    /\ api_keys' = r.keys
    /\ last' = r.resp
    /\ UNCHANGED <<provider, config, ws, billing_events, now, dispatched,
                   users, memberships, sess, user_sessions, reqs, activities>>

PageServed(resp) ==
    /\ last' = resp
    /\ UNCHANGED <<provider, config, ws, billing_events, now, dispatched,
                   users, memberships, api_keys, sess, user_sessions, reqs, activities>>

ListApiKeys ==
    \E u \in DOMAIN users, w \in WorkspaceIds : KeysServed(list_api_keys(api_keys, u, w))

CreateApiKey ==
    \E u \in DOMAIN users, w \in WorkspaceIds, has_name \in BOOLEAN :
        LET r == create_api_key(api_keys, u, w, has_name) IN
        Len(r.keys) <= MaxKeys /\ KeysServed(r)

RevokeApiKey ==
    \E u \in DOMAIN users, w \in WorkspaceIds, k \in KeyIds :
        KeysServed(revoke_api_key(api_keys, u, w, k))

\* views.py:169-177: the response carries the role the resolver returned
SwitchWorkspace ==
    \E u \in DOMAIN users, w \in WorkspaceIds :
        LET role == get_workspace_role(memberships, u, w) IN
        /\ sess' = IF role # NoneStr THEN [sess EXCEPT ![u] = w] ELSE sess
        /\ last' = Resp("switch_workspace", 302, u, w, role)
        /\ UNCHANGED <<provider, config, ws, billing_events, now, dispatched,
                       users, memberships, api_keys, reqs, user_sessions, activities>>

UpgradeWorkspace == \E u \in DOMAIN users : PageServed(upgrade_workspace(u))

BillingPortal == \E u \in DOMAIN users : PageServed(billing_portal(u))

\* The sessions a caller may hold the id of: paid, naming either workspace.
PaidSessions ==
    {StripeSession("complete", "paid", "cus_1", m) : m \in {"1", "2"}}

PaidReturn ==
    \E u \in DOMAIN users, fetched \in PaidSessions :
        BillingSuccessCall(u, TRUE, fetched, TRUE)

\* User 1 is the platform superadmin and owns workspace 2, which it created;
\* user 2 owns workspace 1 and holds any membership rows.
MembershipTables ==
    {{MembershipRow(2, w, r[w]) : w \in {v \in WorkspaceIds : r[v] # NoneStr}} :
        r \in [WorkspaceIds -> Roles \cup {NoneStr}]}

InitAccess ==
    /\ provider = "stripe"
    /\ config = AppConfig(TRUE, TRUE, TRUE, TRUE, FALSE)
    /\ ws = [w \in WorkspaceIds |-> FreeWorkspace(IF w = 1 THEN 2 ELSE 1)]
    /\ billing_events = <<>>
    /\ now = 0
    /\ dispatched = [e \in EventIds |-> 0]
    /\ users = [u \in UserIds |-> UserRow(u = 1)]
    /\ memberships \in MembershipTables
    /\ api_keys = <<>>
    /\ sess = [u \in UserIds |-> NoneId]
    /\ user_sessions = <<>>
    /\ activities = {}
    /\ reqs = <<>>
    /\ last = NoRequest

NextAccess ==
    \/ ListApiKeys \/ CreateApiKey \/ RevokeApiKey
    \/ SwitchWorkspace \/ UpgradeWorkspace \/ BillingPortal
    \/ PaidReturn

SpecAccess == InitAccess /\ [][NextAccess]_vars

--------------------------------------------------------------------------
(* User management API (SpecUsers)                                         *)

Superadmins(table) == {u \in DOMAIN table : table[u].is_superadmin}

\* Mutant: the lookup of an existing superadmin left out.
SuperadminExistsUnchecked(table) == FALSE

\* views.py:34-37: scalar_one_or_none() of the superadmin rows
SuperadminExists(table) == Superadmins(table) # {}

\* views.py:30-54: "ok", the error returned, or "raised" when
\* scalar_one_or_none() finds more than one row
validate_super_admin_change(table, is_superadmin, new_status) ==
    IF new_status /\ ~is_superadmin
    THEN IF Cardinality(Superadmins(table)) > 1 THEN "raised"
         ELSE IF SuperadminExists(table) THEN "only_one_superadmin"
         ELSE "ok"
    ELSE IF ~new_status /\ is_superadmin /\ Cardinality(Superadmins(table)) <= 1
    THEN "last_superadmin"
    ELSE "ok"

Store(u, m, w, k, resp) ==
    [users |-> u, memberships |-> m, ws |-> w, api_keys |-> k, resp |-> resp]

Refused(op, status, caller, id, outcome) ==
    Store(users, memberships, ws, api_keys,
          RespData(op, status, caller, NoneId, outcome, {id}))

\* The item of the request body: the fields from_dict copies (tag), the
\* is_superadmin key ("absent", "true", "false"), the workspace_ids key.
UserItems ==
    [tag : {"t0", "t1"}, is_superadmin : {"absent", "true", "false"},
     has_workspace_ids : BOOLEAN, workspace_ids : SUBSET WorkspaceIds]

\* views.py:57-62, 108-140: the new row has no email, so the INSERT of
\* db.session.flush() violates NOT NULL (models.py:47) outside the try block.
api_user_create(caller, item) ==
    IF ~users[caller].is_superadmin
    THEN Refused("api_user_create", 403, caller, NoneId, "denied")
    ELSE LET v == IF item.is_superadmin = "true"
                  THEN validate_super_admin_change(users, FALSE, TRUE) ELSE "ok" IN
         IF v = "raised" THEN Refused("api_user_create", 500, caller, NoneId, v)
         ELSE IF v # "ok" THEN Refused("api_user_create", 400, caller, NoneId, v)
         ELSE Refused("api_user_create", 500, caller, NoneId, "integrity_error")

\* models.py:96-102: the fields from_dict copies from the request
from_dict(row, item) == [row EXCEPT !.tag = item.tag]

\* Mutant: the changes pending in the session written out on the error return.
DiscardedKept(persisted, pending) == pending

\* views.py:155-156: the handler returns the error without committing, and the
\* request's session is dropped with the changes pending in it
Discarded(persisted, pending) == persisted

\* views.py:57-62, 143-177
api_user_update(caller, id, item, commit_ok) ==
    IF ~users[caller].is_superadmin
    THEN Refused("api_user_update", 403, caller, id, "denied")
    ELSE IF id \notin DOMAIN users
    THEN Refused("api_user_update", 404, caller, id, "not_found")
    ELSE LET v == IF item.is_superadmin = "absent" THEN "ok"
                  ELSE validate_super_admin_change(users, users[id].is_superadmin,
                                                   item.is_superadmin = "true")
             flag == IF item.is_superadmin = "absent" THEN users[id].is_superadmin
                     ELSE item.is_superadmin = "true"
             pending == [users EXCEPT ![id] = from_dict(users[id], item)]
             row == [pending[id] EXCEPT !.is_superadmin = flag]
             replaced == item.has_workspace_ids /\ ~flag
             rows == IF replaced
                     THEN {m \in memberships : m.user_id # id}
                          \cup {MembershipRow(id, w, "member") : w \in item.workspace_ids}
                     ELSE memberships
             fk_ok == replaced => item.workspace_ids \subseteq DOMAIN ws
         IN  IF v = "raised" THEN Refused("api_user_update", 500, caller, id, v)
             ELSE IF v # "ok"
             THEN Store(Discarded(users, pending), memberships, ws, api_keys,
                        RespData("api_user_update", 400, caller, NoneId, v, {id}))
             ELSE IF ~commit_ok \/ ~fk_ok
             THEN Refused("api_user_update", 400, caller, id, "rolled_back")
             ELSE Store([users EXCEPT ![id] = row], rows, ws, api_keys,
                        RespData("api_user_update", 200, caller, NoneId, "updated", {id}))

\* views.py:57-62, 180-209. The rows go with the commit of line 204 (the keys
\* of the user and of the owned workspaces through the api_keys backrefs,
\* models.py:341-342); Activity.register (line 205, models.py:227-234) then
\* adds the audit row and commits a second time inside the same try block, and
\* an exception there is answered by the except branch like any other.
api_user_delete(caller, id, commit_ok, audit_ok) ==
    IF ~users[caller].is_superadmin
    THEN Refused("api_user_delete", 403, caller, id, "denied")
    ELSE IF id \notin DOMAIN users
    THEN Refused("api_user_delete", 404, caller, id, "not_found")
    ELSE IF ~commit_ok
    THEN Refused("api_user_delete", 400, caller, id, "rolled_back")
    ELSE LET owned == {w \in DOMAIN ws : ws[w].owner_id = id} IN
         Store([u \in DOMAIN users \ {id} |-> users[u]],
               {m \in memberships : m.user_id # id /\ m.workspace_id \notin owned},
               [w \in DOMAIN ws \ owned |-> ws[w]],
               SelectSeq(api_keys,
                         LAMBDA k : k.workspace_id \notin owned /\ k.user_id # id),
               IF audit_ok
               THEN RespData("api_user_delete", 200, caller, NoneId, "deleted", {id})
               ELSE RespData("api_user_delete", 400, caller, NoneId, "audit_failed", {id}))

\* models.py:227-234: the row Activity.register adds (data: the id of the user
\* the record is about)
ActivityRow(user_id, workspace_id, action, data) ==
    [user_id |-> user_id, workspace_id |-> workspace_id, action |-> action, data |-> data]

\* models.py:214-219: user_id and workspace_id are declared ondelete="CASCADE",
\* so the store deletes the audit rows of a deleted user or workspace
ActivitiesCascaded(rows, deleted_users, deleted_workspaces) ==
    {a \in rows : a.user_id \notin deleted_users
                   /\ a.workspace_id \notin deleted_workspaces}

\* views.py:169-173, 204-205 and models.py:214-219: the Activity table after
\* the request answered by r. Where the store enforces the foreign keys the
\* cascade runs with the deletion; where it does not, the rows stay.
ActivitiesAfter(rows, r, enforced) ==
    LET caller == r.resp.user
        gone == DOMAIN users \ DOMAIN r.users
        owned == DOMAIN ws \ DOMAIN r.ws
        left == IF enforced THEN ActivitiesCascaded(rows, gone, owned) ELSE rows
    IN  IF r.resp.op = "api_user_update" /\ r.resp.status = 200
        THEN rows \cup {ActivityRow(caller, NoneId, "User Update", id) : id \in r.resp.data}
        ELSE IF r.resp.op = "api_user_delete" /\ r.resp.status = 200
        THEN left \cup {ActivityRow(caller, NoneId, "User Delete", id) : id \in r.resp.data}
        ELSE left

Managed(r, enforced) ==
    /\ users' = r.users
    /\ memberships' = r.memberships
    /\ ws' = r.ws
    /\ api_keys' = r.api_keys
    /\ activities' = ActivitiesAfter(activities, r, enforced)
    /\ last' = r.resp
    /\ UNCHANGED <<provider, config, billing_events, now, dispatched, sess,
                   user_sessions, reqs>>

ApiUserCreate ==
    \E caller \in DOMAIN users, item \in UserItems :
        Managed(api_user_create(caller, item), TRUE)

ApiUserUpdate ==
    \E caller \in DOMAIN users, id \in UserIds, item \in UserItems, commit_ok \in BOOLEAN :
        Managed(api_user_update(caller, id, item, commit_ok), TRUE)

ApiUserDelete ==
    \E caller \in DOMAIN users, id \in UserIds, commit_ok \in BOOLEAN,
       audit_ok \in BOOLEAN, enforced \in BOOLEAN :
        /\ (enforced /\ caller = id) => ~audit_ok
        /\ Managed(api_user_delete(caller, id, commit_ok, audit_ok), enforced)

\* At most one superadmin to start with; every user owns one workspace and is
\* admin of it.
InitUsers ==
    /\ provider = "stripe"
    /\ config = AppConfig(TRUE, TRUE, TRUE, TRUE, FALSE)
    /\ ws = [w \in WorkspaceIds |-> FreeWorkspace(w)]
    /\ billing_events = <<>>
    /\ now = 0
    /\ dispatched = [e \in EventIds |-> 0]
    /\ \E s \in UserIds \cup {NoneId} : users = [u \in UserIds |-> UserRow(u = s)]
    /\ memberships = {MembershipRow(u, u, "admin") : u \in UserIds}
    /\ api_keys = <<>>
    /\ sess = [u \in UserIds |-> NoneId]
    /\ user_sessions = <<>>
    /\ activities = {}
    /\ reqs = <<>>
    /\ last = NoRequest

NextUsers == ApiUserCreate \/ ApiUserUpdate \/ ApiUserDelete

SpecUsers == InitUsers /\ [][NextUsers]_vars

--------------------------------------------------------------------------
(* Concurrent superadmin changes (SpecGuardRace)                           *)
(* Each api_user_update request runs in its own transaction: it reads the  *)
(* committed rows when it validates and writes its row when it commits.    *)

NoUpdate == [pc |-> "idle", caller |-> NoneId, id |-> NoneId, was |-> FALSE,
             new_status |-> FALSE, status |-> 0, outcome |-> "none"]

UpdateFrame ==
    UNCHANGED <<provider, config, ws, billing_events, now, dispatched,
                memberships, api_keys, sess, user_sessions, last, activities>>

\* views.py:57-62, 145-150: before_request and db.get_or_404 read the caller's
\* and the target's committed rows
UpdateArrive(r) ==
    /\ reqs[r].pc = "idle"
    /\ \E caller \in DOMAIN users, id \in DOMAIN users, new_status \in BOOLEAN :
          reqs' = [reqs EXCEPT ![r] =
                     IF ~users[caller].is_superadmin
                     THEN [@ EXCEPT !.pc = "done", !.caller = caller, !.id = id,
                                    !.status = 403, !.outcome = "denied"]
                     ELSE [@ EXCEPT !.pc = "validate", !.caller = caller, !.id = id,
                                    !.was = users[id].is_superadmin,
                                    !.new_status = new_status]]
    /\ UNCHANGED users
    /\ UpdateFrame

\* views.py:153-156: the guard's SELECT sees the rows committed so far
UpdateValidate(r) ==
    /\ reqs[r].pc = "validate"
    /\ LET v == validate_super_admin_change(users, reqs[r].was, reqs[r].new_status) IN
       reqs' = [reqs EXCEPT ![r] =
                  IF v = "ok" THEN [@ EXCEPT !.pc = "commit"]
                  ELSE [@ EXCEPT !.pc = "done", !.outcome = v,
                                 !.status = IF v = "raised" THEN 500 ELSE 400]]
    /\ UNCHANGED users
    /\ UpdateFrame

\* views.py:157, 167-177: the UPDATE of the target row and the commit; a store
\* that detects the conflict fails the commit, which the handler rolls back
UpdateCommit(r) ==
    /\ reqs[r].pc = "commit"
    /\ \E commit_ok \in BOOLEAN :
          IF commit_ok
          THEN /\ users' = [users EXCEPT ![reqs[r].id].is_superadmin = reqs[r].new_status]
               /\ reqs' = [reqs EXCEPT ![r] = [@ EXCEPT !.pc = "done", !.status = 200,
                                                        !.outcome = "updated"]]
          ELSE /\ users' = users
               /\ reqs' = [reqs EXCEPT ![r] = [@ EXCEPT !.pc = "done", !.status = 400,
                                                        !.outcome = "rolled_back"]]
    /\ UpdateFrame

\* One superadmin, or the further ones the CLI created (views.py:39).
InitGuardRace ==
    /\ provider = "stripe"
    /\ config = AppConfig(TRUE, TRUE, TRUE, TRUE, FALSE)
    /\ ws = [w \in WorkspaceIds |-> FreeWorkspace(w)]
    /\ billing_events = <<>>
    /\ now = 0
    /\ dispatched = [e \in EventIds |-> 0]
    /\ \E s \in (SUBSET UserIds) \ {{}} : users = [u \in UserIds |-> UserRow(u \in s)]
    /\ memberships = {MembershipRow(u, u, "admin") : u \in UserIds}
    /\ api_keys = <<>>
    /\ sess = [u \in UserIds |-> NoneId]
    /\ user_sessions = <<>>
    /\ activities = {}
    /\ reqs = [r \in Requests |-> NoUpdate]
    /\ last = NoRequest

NextGuardRace ==
    \E r \in Requests : UpdateArrive(r) \/ UpdateValidate(r) \/ UpdateCommit(r)

SpecGuardRace == InitGuardRace /\ [][NextGuardRace]_vars

--------------------------------------------------------------------------
(* Chargebee webhook authentication (SpecAuth) *)

StripeAuths == {"good", "bad", "unparseable"}
ChargebeeAuths == {"none", "good", "bad_username", "bad_password", "bad"}

\* Each of the two credentials set or not, independently.
ChargebeeCredentialConfigs ==
    {AppConfig(FALSE, u, p, k, d) :
        u \in BOOLEAN, p \in BOOLEAN, k \in BOOLEAN, d \in BOOLEAN}

\* Requests to POST /chargebee/webhook with every kind of credentials
AuthInputs ==
    {WebhookInput(a, b, i, t, cu, TRUE, FetchRaises, TRUE) :
        a \in ChargebeeAuths, b \in BOOLEAN, i \in EventIds, t \in ChargebeeTypes,
        cu \in Customers}

\* webhooks.py:107-167
AuthenticatedDelivery ==
    \E in \in AuthInputs : ChargebeeDelivery(in)

InitAuth ==
    /\ provider = "chargebee"
    /\ config \in ChargebeeCredentialConfigs
    /\ ws = [w \in WorkspaceIds |-> FreeWorkspace(w)]
    /\ billing_events = <<>>
    /\ now = 0
    /\ dispatched = [e \in EventIds |-> 0]
    /\ users = [u \in {1} |-> UserRow(TRUE)]
    /\ memberships = {}
    /\ api_keys = <<>>
    /\ sess = [u \in UserIds |-> NoneId]
    /\ user_sessions = <<>>
    /\ activities = {}
    /\ reqs = <<>>
    /\ last = NoRequest

NextAuth == AuthenticatedDelivery

SpecAuth == InitAuth /\ [][NextAuth]_vars

--------------------------------------------------------------------------
(* One checkout and its cancellation, delivered in any order (SpecOrder) *)

\* The webhook request of the active provider, on the current state.
WebhookInputs == IF provider = "stripe" THEN StripeInputs ELSE ChargebeeInputs
Webhook(in) == IF provider = "stripe"
               THEN stripe_webhook(ws, billing_events, in, now + 1)
               ELSE chargebee_webhook(ws, billing_events, in)
\* The same request delivered again, after r.
WebhookAgain(r, in) ==
    IF provider = "stripe"
    THEN stripe_webhook(r.ws, r.billing_events, in, now + 2)
    ELSE chargebee_webhook(r.ws, r.billing_events, in)

\* The sessions in a success state whose metadata names workspace w and which
\* carry a customer.
SuccessSessionsFor(w) ==
    {f \in Fetchable : /\ ~f.raises
                       /\ ParseInt(f.workspace_id) = w
                       /\ f.customer # NoneStr
                       /\ IF provider = "stripe" THEN StripeSessionSucceeded(f)
                          ELSE ChargebeePageSucceeded(f)}

\* The event types the providers give to a completed checkout and to a
\* cancelled subscription.
CheckoutCompleted == IF provider = "stripe" THEN "checkout.session.completed"
                     ELSE "payment_succeeded"
SubscriptionCancelled == IF provider = "stripe" THEN "customer.subscription.deleted"
                         ELSE "subscription_cancelled"
PaymentFailed == IF provider = "stripe" THEN "invoice.payment_failed"
                 ELSE "payment_failed"

\* The provider emitted a checkout-completed event for a session that names
\* workspace w, and later a subscription-cancelled event for the session's
\* customer. Each is delivered, with valid credentials, until the endpoint
\* answers 200; nothing orders the deliveries of the two.
Undelivered == [status |-> 0, outcome |-> "none"]

Emitted(w, session, checkout_id, cancel_id) ==
    [workspace |-> w, session |-> session,
     checkout |-> [id |-> checkout_id, response |-> Undelivered],
     cancel |-> [id |-> cancel_id, response |-> Undelivered]]

\* The request is served and its response reaches the provider.
Answered(r) ==
    /\ ws' = r.ws
    /\ billing_events' = r.billing_events
    /\ dispatched' = IF r.dispatched_id = NoneStr THEN dispatched
                     ELSE [dispatched EXCEPT ![r.dispatched_id] = @ + 1]
    /\ now' = IF Stamped(ws, r.ws) THEN now + 1 ELSE now
    /\ last' = Resp("webhook", r.status, NoneId, NoneId, r.outcome)
    /\ UNCHANGED <<provider, config, users, memberships, api_keys, sess, user_sessions, activities>>

\* The request that carries the emitted checkout event
CheckoutRequest(commit_ok) ==
    WebhookInput("good", TRUE, reqs.checkout.id, CheckoutCompleted, NoneStr, TRUE,
                 reqs.session, commit_ok)

\* webhooks.py:47-53 / :132-167 on the emitted checkout event
CheckoutDelivery(commit_ok) ==
    /\ reqs.checkout.response.status # 200
    /\ LET r == Webhook(CheckoutRequest(commit_ok)) IN
       /\ Answered(r)
       /\ reqs' = [reqs EXCEPT !.checkout.response =
                       [status |-> r.status, outcome |-> r.outcome]]

DeliverCheckout == \E commit_ok \in BOOLEAN : CheckoutDelivery(commit_ok)

\* webhooks.py:55-69 / :136-149 on the emitted cancellation event
DeliverCancel ==
    /\ reqs.cancel.response.status # 200
    /\ \E commit_ok \in BOOLEAN :
          LET in == WebhookInput("good", TRUE, reqs.cancel.id, SubscriptionCancelled,
                                 reqs.session.customer, TRUE, FetchRaises, commit_ok)
              r == Webhook(in)
          IN  /\ Answered(r)
              /\ reqs' = [reqs EXCEPT !.cancel.response =
                              [status |-> r.status, outcome |-> r.outcome]]

InitOrder ==
    /\ provider \in {"stripe", "chargebee"}
    /\ config \in (IF provider = "stripe" THEN StripeConfigs ELSE ChargebeeConfigs)
    /\ ws = [w \in WorkspaceIds |-> FreeWorkspace(w)]
    /\ billing_events = <<>>
    /\ now = 0
    /\ dispatched = [e \in EventIds |-> 0]
    /\ users = [u \in {1} |-> UserRow(TRUE)]
    /\ memberships = {}
    /\ api_keys = <<>>
    /\ sess = [u \in UserIds |-> NoneId]
    /\ user_sessions = <<>>
    /\ activities = {}
    /\ \E w \in WorkspaceIds, c \in Customers, i \in EventIds, j \in EventIds :
          /\ i # j
          /\ \E session \in {f \in SuccessSessionsFor(w) : f.customer = c} :
                reqs = Emitted(w, session, i, j)
    /\ last = NoRequest

NextOrder == DeliverCheckout \/ DeliverCancel

SpecOrder == InitOrder /\ [][NextOrder]_vars

--------------------------------------------------------------------------
(* Plan-gated Feature Guard (SpecPlan) *)

\* What the guard does: the status returned (200: the wrapped handler ran), the
\* workspace a redirect names, the branch taken.
Guarded(status, workspace, outcome) ==
    [status |-> status, workspace |-> workspace, outcome |-> outcome]

\* The request-scoped state a handler that is not behind the gate finds.
NoGate == Gate(0, NoneId, NoneStr)

\* The workspace the Workspace Authorization Gate published for the request,
\* NoneId when none was.
get_current_workspace(g) == IF g.status = 200 THEN g.workspace ELSE NoneId

\* Mutant: a data response expected only from JSON requests.
ExpectsDataJsonOnly(is_json, api_path) == is_json

\* billing.py:235: request.is_json or request.path.startswith("/api/")
ExpectsData(is_json, api_path) == is_json \/ api_path

\* billing.py:225-241
requires_pro_plan(table, workspace, is_json, api_path) ==
    IF workspace = NoneId THEN Guarded(404, NoneId, "workspace_not_found")
    ELSE IF ~is_pro(table[workspace])
    THEN IF ExpectsData(is_json, api_path)
         THEN Guarded(402, NoneId, "pro_required")
         ELSE Guarded(302, workspace, "to_upgrade")
    ELSE Guarded(200, workspace, "handler")

\* A handler behind the guard, and behind the member-level gate when gated.
pro_feature(u, gated, path_w, is_json, api_path) ==
    LET g == IF gated THEN require_workspace_access(u, path_w, "member") ELSE NoGate IN
    IF gated /\ g.status # 200
    THEN Resp("pro_feature", g.status, u, g.workspace, "denied")
    ELSE LET p == requires_pro_plan(ws, get_current_workspace(g), is_json, api_path)
         IN  Resp("pro_feature", p.status, u, get_current_workspace(g), p.outcome)

ProFeature ==
    \E u \in DOMAIN users, gated \in BOOLEAN, path_w \in WorkspaceIds \cup {NoneId},
       is_json \in BOOLEAN, api_path \in BOOLEAN :
        PageServed(pro_feature(u, gated, path_w, is_json, api_path))

\* The customer the provider creates for the checkout of workspace w.
CustomerOf(w) == IF w = 1 THEN "cus_1" ELSE "cus_2"

\* The successful checkout sessions of the workspaces.
PlanSessions ==
    UNION {{f \in SuccessSessionsFor(w) : f.customer = CustomerOf(w)} :
              w \in WorkspaceIds}

\* views.py:557-574: the browser returns from a paid checkout
PlanPaid ==
    \E u \in DOMAIN users, fetched \in PlanSessions, commit_ok \in BOOLEAN :
        BillingSuccessCall(u, TRUE, fetched, commit_ok)

\* webhooks.py:55-69 / :136-149: the provider reports a cancelled subscription
PlanCancelled ==
    \E in \in CustomerEvents({SubscriptionCancelled}) :
        /\ in.event.id \in EventIds
        /\ in.event.customer \in Customers
        /\ Deliver(Webhook(in))

InitPlan ==
    /\ provider \in {"stripe", "chargebee"}
    /\ config = AppConfig(TRUE, TRUE, TRUE, TRUE, FALSE)
    /\ ws = [w \in WorkspaceIds |-> FreeWorkspace(IF w = 1 THEN 2 ELSE 1)]
    /\ billing_events = <<>>
    /\ now = 0
    /\ dispatched = [e \in EventIds |-> 0]
    /\ users = [u \in UserIds |-> UserRow(u = 1)]
    /\ memberships = {MembershipRow(2, 1, "member")}
    /\ api_keys = <<>>
    /\ sess = [u \in UserIds |-> NoneId]
    /\ user_sessions = <<>>
    /\ activities = {}
    /\ reqs = <<>>
    /\ last = NoRequest

NextPlan == ProFeature \/ SwitchWorkspace \/ PlanPaid \/ PlanCancelled

SpecPlan == InitPlan /\ [][NextPlan]_vars

--------------------------------------------------------------------------
(* Member management: POST /api/workspace/<id>/members/add (SpecMembers) *)

\* Email addresses and usernames, enough for the users of InitMembers and for
\* those the handler creates.
Emails == 1..(2 + MaxMembers)
Usernames == 1..(2 + MaxMembers)

\* A User row with the columns the handler reads and writes.
MemberUser(superadmin, email, username) ==
    [is_superadmin |-> superadmin, tag |-> "t0", email |-> email, username |-> username]

\* views.py:305-315: the JSON body; has_fields: name, username, email and
\* password are all given.
MemberItems ==
    [has_fields : BOOLEAN, email : Emails, username : Usernames, role : Roles]

\* What WorkspaceService.add_member can do inside the nested transaction: add
\* the Membership row, or raise one of the errors the handler catches.
AddMemberOutcomes == {"ok", "IntegrityError", "ValueError"}

Tables(user_table, membership_rows) ==
    [users |-> user_table, memberships |-> membership_rows]

\* Mutant: the flushed User row left in place when add_member fails.
MemberFlushKept(persisted, pending) == pending

\* views.py:348-350: the exception leaves the nested block, whose savepoint is
\* rolled back, and the handler rolls the session back
MemberRolledBack(persisted, pending) == persisted

\* views.py:318-320: the users matching the email or the username
ExistingUsers(table, item) ==
    {x \in DOMAIN table :
        table[x].email = item.email \/ table[x].username = item.username}

NewUserId(table) == 1 + Cardinality(DOMAIN table)

\* views.py:299-350
add_workspace_member(u, w, item, add_outcome, commit_ok) ==
    LET g == require_workspace_access(u, w, "admin")
        existing == ExistingUsers(users, item)
        id == NewUserId(users)
        flushed == Tables(users @@ (id :> MemberUser(FALSE, item.email, item.username)),
                          memberships)
        added == Tables(flushed.users,
                        memberships \cup {MembershipRow(id, w, item.role)})
        same == Tables(users, memberships)
        refused(status, outcome) ==
            [tables |-> same, resp |-> Resp("add_workspace_member", status, u, w, outcome)]
    IN  IF g.status # 200 THEN refused(g.status, "denied")
        ELSE IF ~item.has_fields THEN refused(400, "fields_required")
        ELSE IF Cardinality(existing) > 1
        THEN refused(500, "lookup_raised")          \* scalar_one_or_none
        ELSE IF \E x \in existing : users[x].email = item.email
        THEN refused(400, "email_exists")
        ELSE IF existing # {} THEN refused(400, "username_taken")
        ELSE IF add_outcome # "ok"
        THEN [tables |-> MemberRolledBack(same, flushed),
              resp |-> Resp("add_workspace_member", 400, u, w, "add_failed")]
        ELSE IF ~commit_ok
        THEN refused(500, "commit_failed")
        ELSE [tables |-> added,
              resp |-> RespData("add_workspace_member", 200, u, w, "added", {id})]

AddMemberCall(u, w, item, add_outcome, commit_ok) ==
    LET r == add_workspace_member(u, w, item, add_outcome, commit_ok) IN
    /\ Cardinality(DOMAIN r.tables.users) <= 2 + MaxMembers
    /\ users' = r.tables.users
    /\ memberships' = r.tables.memberships
    /\ last' = r.resp
    /\ UNCHANGED <<provider, config, ws, billing_events, now, dispatched,
                   api_keys, sess, user_sessions, reqs, activities>>

AddWorkspaceMember ==
    \E u \in DOMAIN users, w \in WorkspaceIds, item \in MemberItems,
       add_outcome \in AddMemberOutcomes, commit_ok \in BOOLEAN :
        AddMemberCall(u, w, item, add_outcome, commit_ok)

\* User 1 is the platform superadmin and owns workspace 2; user 2 owns
\* workspace 1 and holds any membership rows.
InitMembers ==
    /\ provider = "stripe"
    /\ config = AppConfig(TRUE, TRUE, TRUE, TRUE, FALSE)
    /\ ws = [w \in WorkspaceIds |-> FreeWorkspace(IF w = 1 THEN 2 ELSE 1)]
    /\ billing_events = <<>>
    /\ now = 0
    /\ dispatched = [e \in EventIds |-> 0]
    /\ users = [u \in UserIds |-> MemberUser(u = 1, u, u)]
    /\ memberships \in MembershipTables
    /\ api_keys = <<>>
    /\ sess = [u \in UserIds |-> NoneId]
    /\ user_sessions = <<>>
    /\ activities = {}
    /\ reqs = <<>>
    /\ last = NoRequest

NextMembers == AddWorkspaceMember

SpecMembers == InitMembers /\ [][NextMembers]_vars

--------------------------------------------------------------------------
(* API key material and response bodies (SpecKeys) *)

\* secrets.token_hex: strings over the alphabet, here of length TokenLen; the
\* prefix keeps "rk_" and the first characters of the token.
KeyChars == {"a", "b"}
TokenLen == 2
PrefixLen == 2
Tokens == [1..TokenLen -> KeyChars]
KeyNames == {<<"ci">>}

\* hashlib.sha256(...).hexdigest(): a string of the digest alphabet, different
\* for different inputs.
DigestChar(c) == CASE c = "a" -> "x" [] c = "b" -> "y" [] OTHER -> "z"
sha256(text) == [i \in 1..Len(text) |-> DigestChar(text[i])]

\* Mutant: the whole key kept as the prefix.
KeyPrefixWhole(full_key) == full_key

\* models.py:350: full_key[:7]
KeyPrefix(full_key) == SubSeq(full_key, 1, PrefixLen)

\* models.py:344-352
generate_key(token) ==
    LET full_key == <<"rk_">> \o token IN
    [full_key |-> full_key, prefix |-> KeyPrefix(full_key), key_hash |-> sha256(full_key)]

\* views.py:136-142: the columns of the row the handler adds
StoredKey(u, w, name, generated) ==
    [workspace_id |-> w, user_id |-> u, is_active |-> TRUE, name |-> name,
     prefix |-> generated.prefix, key_hash |-> generated.key_hash]

\* models.py:354-362
to_dict(id, row) ==
    [id |-> id, name |-> row.name, prefix |-> row.prefix, is_active |-> row.is_active]

\* views.py:128-148 with the key material: the response carries the JSON body
api_key_create(keys, u, w, name, token) ==
    LET g == require_workspace_access(u, w, CreateApiKeyRole)
        generated == generate_key(token)
    IN  IF g.status # 200
        THEN Served(keys, Resp("create_api_key", g.status, u, g.workspace, "denied"))
        ELSE IF name = <<>>
        THEN Served(keys, Resp("create_api_key", 400, u, w, "name_required"))
        ELSE Served(Append(keys, StoredKey(u, w, name, generated)),
                    RespData("create_api_key", 200, u, w, "created",
                             {[key |-> generated.full_key, id |-> Len(keys) + 1,
                               name |-> name, prefix |-> generated.prefix]}))

\* views.py:116-125 with the JSON body
api_key_list(keys, u, w) ==
    LET g == require_workspace_access(u, w, ListApiKeysRole) IN
    IF g.status # 200
    THEN Served(keys, Resp("list_api_keys", g.status, u, g.workspace, "denied"))
    ELSE Served(keys, RespData("list_api_keys", 200, u, w, "listed",
                    {to_dict(k, keys[k]) :
                        k \in {j \in DOMAIN keys :
                                  keys[j].workspace_id = w /\ keys[j].is_active}}))

IssueKey ==
    \E u \in DOMAIN users, w \in WorkspaceIds, name \in KeyNames \cup {<<>>},
       token \in Tokens :
        LET r == api_key_create(api_keys, u, w, name, token) IN
        Len(r.keys) <= MaxKeys /\ KeysServed(r)

ShowKeys ==
    \E u \in DOMAIN users, w \in WorkspaceIds : KeysServed(api_key_list(api_keys, u, w))

InitKeys ==
    /\ provider = "stripe"
    /\ config = AppConfig(TRUE, TRUE, TRUE, TRUE, FALSE)
    /\ ws = [w \in WorkspaceIds |-> FreeWorkspace(IF w = 1 THEN 2 ELSE 1)]
    /\ billing_events = <<>>
    /\ now = 0
    /\ dispatched = [e \in EventIds |-> 0]
    /\ users = [u \in UserIds |-> UserRow(FALSE)]
    /\ memberships = {MembershipRow(1, 1, "admin"), MembershipRow(2, 1, "member")}
    /\ api_keys = <<>>
    /\ sess = [u \in UserIds |-> NoneId]
    /\ user_sessions = <<>>
    /\ activities = {}
    /\ reqs = <<>>
    /\ last = NoRequest

NextKeys == IssueKey \/ ShowKeys \/ RevokeApiKey

SpecKeys == InitKeys /\ [][NextKeys]_vars

--------------------------------------------------------------------------
(* User deletion over populated tables (SpecDelete) *)

\* APIKey rows of every creator and workspace, at most MaxKeys of them
CreatedKeys ==
    {StoredKey(u, w, <<"ci">>, generate_key([i \in 1..TokenLen |-> "a"])) :
        u \in UserIds, w \in WorkspaceIds}

KeyTables == UNION {[1..n -> CreatedKeys] : n \in 0..MaxKeys}

\* models.py:252, 293-296, 330-333: every foreign key names an existing row
Intact(user_table, membership_rows, workspace_table, keys) ==
    /\ \A w \in DOMAIN workspace_table : workspace_table[w].owner_id \in DOMAIN user_table
    /\ \A m \in membership_rows :
          m.user_id \in DOMAIN user_table /\ m.workspace_id \in DOMAIN workspace_table
    /\ \A k \in DOMAIN keys :
          keys[k].user_id \in DOMAIN user_table
          /\ keys[k].workspace_id \in DOMAIN workspace_table

\* User 1 is the superadmin; the workspaces are owned by any of the users, and
\* any of the users are members of and have created keys in any workspace.
InitDelete ==
    /\ provider = "stripe"
    /\ config = AppConfig(TRUE, TRUE, TRUE, TRUE, FALSE)
    /\ \E owner \in [WorkspaceIds -> UserIds] :
          ws = [w \in WorkspaceIds |-> FreeWorkspace(owner[w])]
    /\ billing_events = <<>>
    /\ now = 0
    /\ dispatched = [e \in EventIds |-> 0]
    /\ users = [u \in UserIds |-> UserRow(u = 1)]
    /\ memberships \in SUBSET {MembershipRow(u, w, "member") :
                                  u \in UserIds, w \in WorkspaceIds}
    /\ api_keys \in KeyTables
    /\ sess = [u \in UserIds |-> NoneId]
    /\ user_sessions = <<>>
    /\ activities = {}
    /\ reqs = <<>>
    /\ last = NoRequest

NextDelete == ApiUserDelete

SpecDelete == InitDelete /\ [][NextDelete]_vars

--------------------------------------------------------------------------
(* Session records (SpecSessions) *)

SessionTokens == {"sid_1", "sid_2"}
IpAddresses == {"ip_1", "ip_2"}
Metas == {"agent_1", "agent_2"}

\* models.py:370-389 and the keyword arguments of lines 423-429
SessionRow(user_id, session_token, ip_address, meta, t) ==
    [user_id |-> user_id, session_token |-> session_token, ip_address |-> ip_address,
     meta |-> meta, is_active |-> TRUE, last_active |-> t]

\* Mutant: the lookup finds no row.
SessionLookupMissed(table, session_token) == {}

\* models.py:411-413: the rows the select returns
SessionLookup(table, session_token) ==
    {i \in DOMAIN table : table[i].session_token = session_token}

\* models.py:403-433: the table as the session holds it after the call, or
\* "raised" when scalar_one_or_none finds more than one row
create_session(table, user_id, session_token, ip_address, meta, t) ==
    LET existing == SessionLookup(table, session_token) IN
    IF Cardinality(existing) > 1 THEN [outcome |-> "raised", table |-> table]
    ELSE IF existing # {}
    THEN LET i == CHOOSE j \in existing : TRUE IN
         [outcome |-> "refreshed",
          table |-> [table EXCEPT ![i] = [@ EXCEPT !.user_id = user_id,
                                                    !.ip_address = ip_address,
                                                    !.meta = meta,
                                                    !.is_active = TRUE,
                                                    !.last_active = t]]]
    ELSE [outcome |-> "inserted",
          table |-> Append(table, SessionRow(user_id, session_token, ip_address, meta, t))]

\* models.py:435-444 with the exclude_token of line 147
deactivate_user_sessions(table, user_id, exclude_token) ==
    [i \in DOMAIN table |->
        IF /\ table[i].user_id = user_id
           /\ table[i].is_active
           /\ table[i].session_token # exclude_token
        THEN [table[i] EXCEPT !.is_active = FALSE]
        ELSE table[i]]

\* views.py:249-277: the signal handler of a successful authentication; the
\* record is written with the commit that ends the handler or the login
\* request, and a failed commit leaves the table as it was.
user_authenticated_handler(table, user, session_token, ip_address, meta, t, single, commit_ok) ==
    LET created == create_session(table, user, session_token, ip_address, meta, t)
        after == IF single
                 THEN deactivate_user_sessions(created.table, user, session_token)
                 ELSE created.table
    IN  IF created.outcome = "raised"
        THEN [table |-> table,
              resp |-> Resp("user_authenticated", 500, user, NoneId, "raised")]
        ELSE IF ~commit_ok
        THEN [table |-> table,
              resp |-> Resp("user_authenticated", 500, user, NoneId, "rolled_back")]
        ELSE [table |-> after,
              resp |-> RespData("user_authenticated", 200, user, NoneId, created.outcome,
                                SessionLookup(after, session_token))]

\* views.py:298-306
user_logged_out_handler(table, user, session_token) ==
    [table |-> [i \in DOMAIN table |->
                    IF table[i].session_token = session_token /\ table[i].is_active
                    THEN [table[i] EXCEPT !.is_active = FALSE]
                    ELSE table[i]],
     resp |-> Resp("user_logged_out", 200, user, NoneId, "logged_out")]

SessionsServed(r, t) ==
    /\ user_sessions' = r.table
    /\ last' = r.resp
    /\ now' = t
    /\ UNCHANGED <<provider, config, ws, billing_events, dispatched, users, memberships,
                   api_keys, sess, reqs, activities>>

\* datetime.now() read by the call: the clock has moved on or not
ClockReads == {t \in {now, now + 1} : t <= MaxTime}

UserAuthenticated ==
    \E user \in DOMAIN users, session_token \in SessionTokens, ip_address \in IpAddresses,
       meta \in Metas, t \in ClockReads, single_session \in BOOLEAN, commit_ok \in BOOLEAN :
        SessionsServed(user_authenticated_handler(user_sessions, user, session_token,
                                                  ip_address, meta, t, single_session,
                                                  commit_ok), t)

UserLoggedOut ==
    \E user \in DOMAIN users, session_token \in SessionTokens :
        SessionsServed(user_logged_out_handler(user_sessions, user, session_token), now)

InitSessions ==
    /\ provider = "stripe"
    /\ config = AppConfig(TRUE, TRUE, TRUE, TRUE, FALSE)
    /\ ws = [w \in WorkspaceIds |-> FreeWorkspace(w)]
    /\ billing_events = <<>>
    /\ now = 0
    /\ dispatched = [e \in EventIds |-> 0]
    /\ users = [u \in UserIds |-> UserRow(u = 1)]
    /\ memberships = {MembershipRow(u, u, "admin") : u \in UserIds}
    /\ api_keys = <<>>
    /\ sess = [u \in UserIds |-> NoneId]
    /\ user_sessions = <<>>
    /\ activities = {}
    /\ reqs = <<>>
    /\ last = NoRequest

NextSessions == UserAuthenticated \/ UserLoggedOut

SpecSessions == InitSessions /\ [][NextSessions]_vars

--------------------------------------------------------------------------
(* Profile and user-management updates of rows with an email (SpecProfile) *)

\* models.py:46-47, 96-102: a User row with the email, the name the profile
\* endpoint assigns, and the fields from_dict copies (tag)
ProfileUser(superadmin, email) ==
    [is_superadmin |-> superadmin, tag |-> "t0", email |-> email, name |-> "n0"]

\* views.py:238: the JSON body of PUT /api/profile
ProfileData == [has_email : BOOLEAN, email : Emails, has_name : BOOLEAN, name : {"n0", "n1"}]

\* views.py:146-147: the item of POST /api/user/<id>, an email key included
ProfileItems ==
    [tag : {"t0", "t1"}, is_superadmin : {"absent", "true", "false"},
     has_workspace_ids : {FALSE}, workspace_ids : {{}}, has_email : BOOLEAN, email : Emails]

\* Mutant: the email key of the body not looked at.
EmailGivenIgnored(data) == FALSE

\* views.py:241: "email" in data
EmailGiven(data) == data.has_email

\* views.py:234-252
profile_update(u, data, commit_ok) ==
    IF EmailGiven(data)
    THEN Refused("profile_update", 400, u, u, "email_cannot_be_changed")
    ELSE IF ~commit_ok
    THEN Refused("profile_update", 400, u, u, "rolled_back")
    ELSE Store(IF data.has_name THEN [users EXCEPT ![u].name = data.name] ELSE users,
               memberships, ws, api_keys,
               RespData("profile_update", 200, u, NoneId, "updated", {u}))

ProfileUpdate ==
    \E u \in DOMAIN users, data \in ProfileData, commit_ok \in BOOLEAN :
        Managed(profile_update(u, data, commit_ok), TRUE)

ApiUserUpdateItem ==
    \E caller \in DOMAIN users, id \in UserIds, item \in ProfileItems, commit_ok \in BOOLEAN :
        Managed(api_user_update(caller, id, item, commit_ok), TRUE)

InitProfile ==
    /\ provider = "stripe"
    /\ config = AppConfig(TRUE, TRUE, TRUE, TRUE, FALSE)
    /\ ws = [w \in WorkspaceIds |-> FreeWorkspace(w)]
    /\ billing_events = <<>>
    /\ now = 0
    /\ dispatched = [e \in EventIds |-> 0]
    /\ users = [u \in UserIds |-> ProfileUser(u = 1, u)]
    /\ memberships = {MembershipRow(u, u, "admin") : u \in UserIds}
    /\ api_keys = <<>>
    /\ sess = [u \in UserIds |-> NoneId]
    /\ user_sessions = <<>>
    /\ activities = {}
    /\ reqs = <<>>
    /\ last = NoRequest

NextProfile == ProfileUpdate \/ ApiUserUpdateItem

SpecProfile == InitProfile /\ [][NextProfile]_vars

--------------------------------------------------------------------------
(* Redelivery of one checkout event (SpecRetry) *)
(* Stripe delivers the emitted checkout-completed event again and again;   *)
(* a delivery meets a failing or a working session fetch and a failing or  *)
(* a working upgrade commit.                                               *)

\* webhooks.py:18-53 on one more delivery of the emitted checkout event
Redelivery(insert_ok, fetch_ok, commit_ok) ==
    LET in == WebhookInput("good", TRUE, reqs.checkout.id, CheckoutCompleted, NoneStr,
                           insert_ok, IF fetch_ok THEN reqs.session ELSE FetchRaises,
                           commit_ok)
        r == Webhook(in)
    IN  /\ Answered(r)
        /\ reqs' = [reqs EXCEPT !.checkout.response =
                        [status |-> r.status, outcome |-> r.outcome]]

\* A delivery during which the insert of the BillingEvent row meets a database
\* error, or the provider fetch or the upgrade commit fails
FailingDelivery ==
    \E insert_ok \in BOOLEAN, fetch_ok \in BOOLEAN, commit_ok \in BOOLEAN :
        ~(insert_ok /\ fetch_ok /\ commit_ok) /\ Redelivery(insert_ok, fetch_ok, commit_ok)

\* A delivery during which all of them work
WorkingDelivery ==
    \E ok \in {TRUE} : Redelivery(ok, ok, ok)

InitRetry ==
    /\ InitOrder
    /\ provider = "stripe"
    /\ config = AppConfig(TRUE, FALSE, FALSE, TRUE, FALSE)

NextRetry == FailingDelivery \/ WorkingDelivery

\* The provider keeps redelivering and the fetch and the commit work again
\* from some delivery on: a working delivery that would change anything is
\* eventually made.
SpecRetry == InitRetry /\ [][NextRetry]_vars /\ WF_vars(WorkingDelivery)

--------------------------------------------------------------------------
(* Claims on the webhook pipeline and the billing synchronizer (Spec) *)

\* C1: with requests processed one at a time, delivering a verified event with
\* the same event id twice leaves exactly one BillingEvent row for that id, runs
\* its dispatch at most once, and the second delivery returns 200 and changes no
\* workspace (and no BillingEvent row).
C1_IdempotentDelivery ==
    /\ \A e \in EventIds :
          /\ Cardinality(RowsFor(billing_events, e)) <= 1
          /\ dispatched[e] <= 1
    /\ \A in \in WebhookInputs :
          LET first == Webhook(in)
              second == WebhookAgain(first, in)
          IN  (in.event.id \in EventIds /\ first.outcome # "unverified"
               /\ first.outcome # "insert_failed")
              => /\ Cardinality(RowsFor(second.billing_events, in.event.id)) = 1
                 /\ second.status = 200
                 /\ second.ws = first.ws
                 /\ second.billing_events = first.billing_events
                 /\ second.dispatched_id = NoneStr

\* A second delivery of a recorded event was answered.
C1_Witness ==
    /\ last.op = "webhook" /\ last.outcome = "duplicate" /\ last.status = 200
    /\ \E e \in EventIds : dispatched[e] = 1 /\ Cardinality(RowsFor(billing_events, e)) = 1

\* C3: once a webhook's BillingEvent row has been committed, the endpoint
\* returns 200 on every path, including when the dispatched handler fails:
\* every request that commits a BillingEvent row is answered 200.
C3_AckOnceRecorded ==
    [][billing_events' # billing_events => last'.status = 200]_vars

\* C4: handle_successful_payment is idempotent. For a session in a success state
\* whose metadata names an existing workspace W (and, for Chargebee, whose
\* content carries a customer), with the upgrade write committing: a call on a
\* free W returns W's id and leaves W pro with the session's customer id and the
\* call's timestamp; a call on a pro W returns W's id and changes nothing; so
\* does any further call after either.
C4_UpgradeIdempotent ==
    config.api_key =>
    \A w \in DOMAIN ws : \A f \in SuccessSessionsFor(w) :
        LET first == handle_successful_payment(ws, f, TRUE, now + 1) IN
        /\ first.ret = w /\ ~first.raised
        /\ IF is_pro(ws[w]) THEN first.ws = ws
           ELSE first.ws = [ws EXCEPT ![w] = [@ EXCEPT !.plan = "pro",
                                                      !.billing_customer_id = f.customer,
                                                      !.upgraded_at = now + 1]]
        /\ \A g \in SuccessSessionsFor(w), c \in BOOLEAN :
              LET further == handle_successful_payment(first.ws, g, c, now + 2) IN
              further.ret = w /\ further.ws = first.ws /\ ~further.raised

\* A call on an already upgraded workspace returned its id.
C4_Witness ==
    /\ last.op = "billing_success" /\ last.outcome = "already_pro"
    /\ last.workspace \in DOMAIN ws
    /\ is_pro(ws[last.workspace]) /\ ws[last.workspace].upgraded_at # 0

\* C5 as stated: a workspace is upgraded only if the fetched session has
\* status complete and payment_status paid (Stripe) or state succeeded
\* (Chargebee): no call that fetched another session upgrades a workspace.
C5_UpgradeOnlyIfPaid ==
    [][\A u \in DOMAIN users, f \in Fetchable, c \in BOOLEAN :
          (/\ BillingSuccessCall(u, TRUE, f, c)
           /\ \E w \in DOMAIN ws : is_pro(ws'[w]) /\ ~is_pro(ws[w]))
          => /\ ~f.raises
             /\ IF provider = "stripe"
                THEN f.status = "complete" /\ f.payment_status = "paid"
                ELSE f.state = "succeeded"]_vars

\* C5 amended: a workspace is upgraded only if the fetched session has status
\* complete and payment_status paid or no_payment_required (Stripe), or state
\* succeeded (Chargebee); for every other combination nothing changes.
C5_UpgradeOnlyIfSucceeded ==
    \A f \in Fetchable, c \in BOOLEAN :
        LET r == handle_successful_payment(ws, f, c, now + 1)
            succeeded ==
                /\ ~f.raises
                /\ IF provider = "stripe"
                   THEN /\ f.status = "complete"
                        /\ f.payment_status \in {"paid", "no_payment_required"}
                   ELSE f.state = "succeeded"
        IN  ~succeeded => r.ws = ws /\ r.ret = NoneId

\* A call upgraded a workspace.
C5_Witness ==
    /\ last.op = "billing_success" /\ last.outcome = "upgraded"
    /\ last.workspace \in DOMAIN ws /\ is_pro(ws[last.workspace])

--------------------------------------------------------------------------
(* Claims on concurrent webhook requests (SpecRace) *)

Inserted(r) == reqs[r].pc = "dispatch" \/ (reqs[r].pc = "done" /\ reqs[r].outcome
                                              \notin {"duplicate", "duplicate_at_commit"})
Turned(r) == reqs[r].pc = "done" /\ reqs[r].outcome \in {"duplicate", "duplicate_at_commit"}

\* C2: when two webhook requests carrying the same event id are processed
\* concurrently, under every interleaving at most one of them succeeds at the
\* BillingEvent insert and goes on to dispatch; the other hits the uniqueness
\* violation and returns 200 without dispatching.
C2_OneWinsTheInsert ==
    /\ \A e \in EventIds :
          /\ Cardinality(RowsFor(billing_events, e)) <= 1
          /\ dispatched[e] <= 1
    /\ \A r1 \in Requests, r2 \in Requests :
          (r1 # r2 /\ reqs[r1].pc # "idle" /\ reqs[r2].pc # "idle"
           /\ reqs[r1].in.event.id = reqs[r2].in.event.id)
          => /\ ~(Inserted(r1) /\ Inserted(r2))
             /\ Turned(r1) => /\ reqs[r1].status = 200
                              /\ Cardinality(RowsFor(billing_events,
                                                     reqs[r1].in.event.id)) = 1
                              /\ \E r \in Requests \ {r1} :
                                    /\ Inserted(r)
                                    /\ reqs[r].in.event.id = reqs[r1].in.event.id

\* Two requests raced on one event id: the loser had passed its INSERT and was
\* turned away at its COMMIT, the winner dispatched.
C2_Witness ==
    \E r1 \in Requests, r2 \in Requests :
        /\ r1 # r2
        /\ reqs[r1].pc = "done" /\ reqs[r2].pc = "done"
        /\ reqs[r1].in.event.id = reqs[r2].in.event.id
        /\ reqs[r1].outcome = "duplicate_at_commit"
        /\ Inserted(r2)
        /\ dispatched[reqs[r1].in.event.id] = 1

--------------------------------------------------------------------------
(* Claims on the gate and the portal endpoints (SpecAccess) *)

OnlyInWorkspaceOne(u) ==
    /\ ~users[u].is_superadmin
    /\ \A w \in WorkspaceIds \ {1} : ws[w].owner_id # u
    /\ {m.workspace_id : m \in {x \in memberships : x.user_id = u}} = {1}

\* C6: a user whose only membership is in workspace 1 never reads data of, and
\* never mutates rows of, workspace 2 through any workspace-scoped endpoint: the
\* response naming workspace 2 is 403 or 404 (or the redirect to the dashboard
\* by which switch_workspace refuses), it carries no key of workspace 2, the
\* session does not select workspace 2, and the Workspace row and the API keys
\* of workspace 2 are unchanged.
C6_CrossTenantIsolation ==
    [][OnlyInWorkspaceOne(last'.user)
         => /\ ws'[2] = ws[2]
            /\ \A k \in DOMAIN api_keys' :
                  api_keys'[k].workspace_id = 2
                  => k \in DOMAIN api_keys /\ api_keys'[k] = api_keys[k]
            /\ \A k \in last'.data : api_keys'[k].workspace_id # 2
            /\ sess'[last'.user] # 2
            /\ (last'.workspace = 2 /\ last'.op # "switch_workspace")
               => last'.status \in {403, 404}]_vars

PassesAdminGate(u, w) ==
    \/ users[u].is_superadmin
    \/ get_workspace_role(memberships, u, w) \in {"admin", "owner"}

C8_OwnerResolvesToOwner ==
    last.op = "switch_workspace"
    => last.outcome = IF ws[last.workspace].owner_id = last.user
                      THEN "owner"
                      ELSE get_workspace_role(memberships, last.user, last.workspace)

\* C9: a plan upgrade performed through GET /billing/success happens only when
\* the caller holds the admin or owner role in the workspace acted on (or is the
\* platform superadmin, whom the gate lets pass).
C9_BillingAdminOnly ==
    (last.op = "billing_success" /\ last.outcome = "upgraded")
    => \/ users[last.user].is_superadmin
       \/ ws[last.workspace].owner_id = last.user
       \/ get_workspace_role(memberships, last.user, last.workspace) = "admin"

--------------------------------------------------------------------------
(* Claims on the user management API (SpecUsers) *)

\* C10: starting with at most one superadmin, after any sequence of
\* api_user_create, api_user_update and api_user_delete calls executed one at a
\* time, at most one user has is_superadmin = true.
C10_SingleSuperadmin == Cardinality(Superadmins(users)) <= 1

\* The superadmin asked to promote a second user and was refused; the store
\* still has its one superadmin.
C10_Witness ==
    /\ last.op = "api_user_update"
    /\ last.status = 400
    /\ last.outcome = "only_one_superadmin"
    /\ last.data \cap Superadmins(users) = {}
    /\ Superadmins(users) = {last.user}

\* C11: starting with exactly one superadmin, no user-management call (an
\* update that demotes, or a delete of that user) reaches a state with zero
\* superadmins.
C11_LastSuperadminStays ==
    [][Cardinality(Superadmins(users)) = 1 => Superadmins(users') # {}]_vars

\* C13: a rejected superadmin change causes no state change: promoting while
\* another superadmin exists, and demoting the sole superadmin, are rejected
\* with 400 by api_user_update and api_user_create, and the user rows (flag and
\* the other fields of the request), the memberships and the set of users keep
\* their prior values.
C13_RejectionChangesNothing ==
    \A caller \in Superadmins(users), item \in UserItems :
        /\ \A id \in DOMAIN users, commit_ok \in BOOLEAN :
              LET r == api_user_update(caller, id, item, commit_ok)
                  promotes == item.is_superadmin = "true" /\ ~users[id].is_superadmin
                  demotes == /\ item.is_superadmin = "false"
                             /\ Superadmins(users) = {id}
              IN  /\ promotes => r.resp.outcome = "only_one_superadmin"
                  /\ demotes => r.resp.outcome = "last_superadmin"
                  /\ (promotes \/ demotes)
                     => /\ r.resp.status = 400
                        /\ r.users = users
                        /\ r.memberships = memberships
                        /\ r.ws = ws
        /\ item.is_superadmin = "true"
           => LET r == api_user_create(caller, item) IN
              /\ r.resp.status = 400
              /\ r.resp.outcome = "only_one_superadmin"
              /\ r.users = users
              /\ r.memberships = memberships

\* The sole superadmin was asked to be demoted by a request that also carried
\* other field values and a workspace list, and the request was refused.
C13_Witness ==
    /\ last.op = "api_user_update"
    /\ last.status = 400
    /\ last.outcome = "last_superadmin"
    /\ \E id \in last.data, item \in UserItems :
          /\ Superadmins(users) = {id}
          /\ item.is_superadmin = "false"
          /\ item.tag # users[id].tag
          /\ item.has_workspace_ids
          /\ api_user_update(last.user, id, item, TRUE).resp = last

--------------------------------------------------------------------------
(* Claims on concurrent superadmin changes (SpecGuardRace) *)

\* C12: the guard's check and the write it guards are atomic: whatever the
\* interleaving of the requests, demotions never leave zero superadmins, and a
\* promotion is committed only when no other superadmin exists.
C12_GuardAtomic ==
    [][/\ Superadmins(users) # {} => Superadmins(users') # {}
       /\ \A u \in Superadmins(users') \ Superadmins(users) : Superadmins(users) = {}]_vars

--------------------------------------------------------------------------
(* Claims on delivery order (SpecOrder) *)

\* C14: out-of-order delivery is tolerated: once the checkout-completed event
\* for workspace W and the later subscription-cancelled event for the same
\* customer have both been processed, in either delivery order, W's plan is
\* free.
C14_OutOfOrderTolerated ==
    (/\ reqs.checkout.response = [status |-> 200, outcome |-> "checkout"]
     /\ reqs.cancel.response = [status |-> 200, outcome |-> "cancel"])
    => ws[reqs.workspace].plan = "free"

\* The same, for the deliveries that arrive in the order of emission.
InOrderEndsFree ==
    [][(/\ reqs.checkout.response.status = 200
        /\ reqs.cancel.response.status # 200
        /\ reqs'.cancel.response = [status |-> 200, outcome |-> "cancel"])
       => ws'[reqs.workspace].plan = "free"]_vars

\* C15: under whichever provider is active, a first-seen checkout-completed
\* webhook event is dispatched to handle_successful_payment with the session id
\* of the event: when the endpoint and the billing client are configured and
\* the upgrade's commit succeeds, the delivery of the event for a successful
\* checkout of the free workspace W leaves W on plan pro.
C15_CheckoutWebhookUpgrades ==
    [][(/\ CheckoutDelivery(TRUE)
        /\ Webhook(CheckoutRequest(TRUE)).outcome # "unverified"
        /\ config.api_key
        /\ ~BillingEventRejected(billing_events, reqs.checkout.id)
        /\ ~is_pro(ws[reqs.workspace]))
       => is_pro(ws'[reqs.workspace])]_vars

--------------------------------------------------------------------------
(* Claims on the dispatch of a recorded event (Spec) *)

\* The request passes verification and its event id is recorded by it.
FirstSeenVerified(in) ==
    /\ in.insert_ok
    /\ ~BillingEventRejected(billing_events, in.event.id)
    /\ Webhook(in).outcome # "unverified"

\* The Workspace table with the plan of the workspaces in found set to free.
Downgraded(table, found) ==
    [w \in DOMAIN table |->
        IF w \in found THEN [table[w] EXCEPT !.plan = "free"] ELSE table[w]]

\* C16: a first-seen subscription-cancelled event for customer C, when one
\* workspace has billing_customer_id = C and the write commits: after the
\* request the workspace's plan is free, whether it was pro or free before,
\* nothing else of the table has changed, and the response is 200.
C16_CancelDowngrades ==
    \A in \in CustomerEvents({SubscriptionCancelled}) :
        LET r == Webhook(in)
            found == WorkspacesByCustomer(ws, in.event.customer)
        IN  (/\ in.event.type = SubscriptionCancelled
             /\ FirstSeenVerified(in)
             /\ in.commit_ok
             /\ Cardinality(found) = 1)
            => /\ r.status = 200
               /\ r.ws = Downgraded(ws, found)
               /\ \A w \in found : r.ws[w].plan = "free"

\* A cancellation was answered 200 and a workspace that had been upgraded, and
\* so carries a customer id, is on the free plan; a cancellation for its
\* customer would be processed again and find it free.
C16_Witness ==
    /\ last.op = "webhook" /\ last.outcome = "cancel" /\ last.status = 200
    /\ billing_events # <<>>
    /\ billing_events[Len(billing_events)].event_type = SubscriptionCancelled
    /\ \E w \in DOMAIN ws, in \in CustomerEvents({SubscriptionCancelled}) :
          /\ ws[w].plan = "free" /\ ws[w].upgraded_at # 0
          /\ in.event.customer = ws[w].billing_customer_id
          /\ WorkspacesByCustomer(ws, in.event.customer) = {w}
          /\ FirstSeenVerified(in) /\ in.commit_ok

\* C17: a first-seen payment-failed event for customer C: a pro workspace with
\* billing_customer_id = C becomes free when the write commits; a free one is
\* left as it is without a write (the outcome does not depend on whether a
\* commit would succeed); when no workspace matches, nothing changes.
C17_PaymentFailedDowngradesPro ==
    \A in \in CustomerEvents({PaymentFailed}) :
        LET r == Webhook(in)
            found == WorkspacesByCustomer(ws, in.event.customer)
        IN  (in.event.type = PaymentFailed /\ FirstSeenVerified(in))
            => /\ (found = {} \/ \E w \in found : found = {w} /\ ~is_pro(ws[w]))
                  => r.ws = ws /\ r.status = 200
               /\ (in.commit_ok /\ \E w \in found : found = {w} /\ is_pro(ws[w]))
                  => r.ws = Downgraded(ws, found) /\ r.status = 200

\* A payment failure was answered 200 when a workspace that had been upgraded
\* is on the free plan, and another payment failure for its customer would be
\* processed and write nothing.
C17_Witness ==
    /\ last.op = "webhook" /\ last.outcome = "payment_failed" /\ last.status = 200
    /\ billing_events # <<>>
    /\ billing_events[Len(billing_events)].event_type = PaymentFailed
    /\ \E w \in DOMAIN ws, in \in CustomerEvents({PaymentFailed}) :
          /\ ws[w].plan = "free" /\ ws[w].upgraded_at # 0
          /\ in.event.customer = ws[w].billing_customer_id
          /\ WorkspacesByCustomer(ws, in.event.customer) = {w}
          /\ FirstSeenVerified(in) /\ ~in.commit_ok
          /\ Webhook(in).ws = ws

\* C18: a verified first-seen event of a type the handlers do not name is
\* answered 200 and dispatches nothing: the Workspace table is unchanged and
\* the BillingEvent table gains the event's row and nothing else.
C18_UnmodelledAcknowledged ==
    \A in \in CustomerEvents({"other"}) :
        LET r == Webhook(in) IN
        (in.event.type = "other" /\ FirstSeenVerified(in))
        => /\ r.status = 200
           /\ r.ws = ws
           /\ r.billing_events = Append(billing_events, BillingEventRow(in.event))

\* An event of another type, naming the customer of a pro workspace, was
\* recorded and answered 200.
C18_Witness ==
    /\ last.op = "webhook" /\ last.outcome = "none" /\ last.status = 200
    /\ billing_events # <<>>
    /\ billing_events[Len(billing_events)].event_type = "other"
    /\ \E w \in DOMAIN ws : is_pro(ws[w]) /\ ws[w].billing_customer_id \in Customers

\* Requests carrying each kind of event the endpoints act on, each of which is
\* recorded and dispatched when it is verified and its id is new.
ActedOn ==
    {in \in CustomerEvents(IF provider = "stripe" THEN StripeTypes ELSE ChargebeeTypes) :
        in.event.id \in EventIds /\ in.commit_ok}
    \cup {WebhookInput("good", TRUE, i, CheckoutCompleted, NoneStr, TRUE, f, TRUE) :
            i \in EventIds, f \in SuccessSessionsFor(1)}

\* The requests that differ from in by their credentials and body and that must
\* fail verification, with the status each must get.
Unverifiable(in) ==
    IF provider = "stripe"
    THEN {[req |-> [in EXCEPT !.auth = a], status |-> 500] :
             a \in IF config.webhook_secret THEN {} ELSE StripeAuths}
         \cup {[req |-> [in EXCEPT !.auth = a], status |-> 400] :
             a \in IF config.webhook_secret THEN {"bad", "unparseable"} ELSE {}}
    ELSE {[req |-> [in EXCEPT !.auth = a, !.has_body = b], status |-> 401] :
             a \in {x \in ChargebeeAuths : ~verify_chargebee_auth(x)}, b \in BOOLEAN}
         \cup {[req |-> [in EXCEPT !.auth = a, !.has_body = FALSE], status |-> 400] :
             a \in {x \in ChargebeeAuths : verify_chargebee_auth(x)}}

\* C19: verification precedes every state change: a request that fails it
\* (Stripe: secret not configured, 500; signature invalid or payload
\* unparseable, 400; Chargebee: Basic auth failed, 401; body missing, 400) gets
\* that status, inserts no BillingEvent row and changes no workspace, whatever
\* event it carries.
C19_VerificationFirst ==
    \A in \in ActedOn : \A v \in Unverifiable(in) :
        LET r == Webhook(v.req) IN
        /\ r.status = v.status
        /\ r.billing_events = billing_events
        /\ r.ws = ws
        /\ r.dispatched_id = NoneStr

\* A request was rejected at verification while a workspace is pro and the
\* request's event, had it been verified, would have been recorded and have
\* downgraded the workspace.
C19_Witness ==
    /\ last.op = "webhook" /\ last.outcome = "unverified"
    /\ last.status \in {400, 401, 500}
    /\ \E w \in DOMAIN ws, in \in ActedOn :
          /\ is_pro(ws[w])
          /\ in.event.type = SubscriptionCancelled
          /\ in.event.customer = ws[w].billing_customer_id
          /\ in.insert_ok /\ in.commit_ok
          /\ ~BillingEventRejected(billing_events, in.event.id)
          /\ Unverifiable(in) # {}

--------------------------------------------------------------------------
(* Claims on the Chargebee credentials (SpecAuth) *)

\* C20: the Chargebee authentication decision: with both credentials
\* configured a request is accepted iff its Basic-auth username and password
\* both match; with a credential missing every request is rejected outside debug
\* mode and accepted in debug mode; a rejected request gets 401.
C20_ChargebeeAuthDecision ==
    \A in \in AuthInputs :
        LET accepted == verify_chargebee_auth(in.auth)
            r == chargebee_webhook(ws, billing_events, in)
        IN  /\ IF config.webhook_username /\ config.webhook_password
               THEN accepted <=> in.auth = "good"
               ELSE accepted <=> config.debug
            /\ ~accepted => r.status = 401
            /\ accepted => r.status # 401

\* With both credentials configured, a request was answered 401 after an
\* accepted one had been recorded.
C20_Witness ==
    /\ config.webhook_username /\ config.webhook_password
    /\ last.op = "webhook" /\ last.status = 401
    /\ billing_events # <<>>

--------------------------------------------------------------------------
(* Claims on the outcomes of handle_successful_payment (Spec) *)

\* C21: handle_successful_payment returns None, without raising and without
\* changing any workspace, whenever the fetched session is not in a success
\* state, its metadata carries no workspace_id, or the workspace its metadata
\* names does not exist.
C21_NothingToDoReturnsNone ==
    config.api_key =>
    \A f \in Fetchable \ {FetchRaises}, c \in BOOLEAN :
        LET r == handle_successful_payment(ws, f, c, now + 1)
            not_succeeded == IF provider = "stripe"
                             THEN \/ f.status # "complete"
                                  \/ f.payment_status \notin {"paid", "no_payment_required"}
                             ELSE f.state # "succeeded"
            no_metadata == f.workspace_id = MetaAbsent
            no_workspace == /\ f.workspace_id \in {"1", "2", "3"}
                            /\ ParseInt(f.workspace_id) \notin DOMAIN ws
        IN  (not_succeeded \/ no_metadata \/ no_workspace)
            => /\ r.ret = NoneId
               /\ ~r.raised
               /\ r.ws = ws

\* A call whose session succeeded but named a workspace that does not exist
\* returned None, while a session naming an existing workspace would upgrade it.
C21_Witness ==
    /\ last.op = "billing_success" /\ last.outcome = "no_workspace"
    /\ last.workspace = NoneId
    /\ \E w \in DOMAIN ws : \E f \in SuccessSessionsFor(w) :
          handle_successful_payment(ws, f, TRUE, now + 1).path = "upgraded"

\* C22: if the commit of the upgrade write fails, the transaction is rolled
\* back and None is returned: for a successful session naming an existing
\* workspace that is not pro, a call whose commit fails does not raise and
\* leaves plan, billing_customer_id and upgraded_at of every workspace as they
\* were.
C22_FailedCommitRollsBack ==
    config.api_key =>
    \A w \in DOMAIN ws : \A f \in SuccessSessionsFor(w) :
        LET r == handle_successful_payment(ws, f, FALSE, now + 1) IN
        ~is_pro(ws[w])
        => /\ r.ret = NoneId
           /\ ~r.raised
           /\ r.ws = ws
           /\ r.path = "rolled_back"

\* An upgrade's commit failed: the call returned None and a workspace that a
\* successful session names is still free, without customer id or timestamp.
C22_Witness ==
    /\ last.op = "billing_success" /\ last.outcome = "rolled_back"
    /\ last.workspace = NoneId
    /\ \E w \in DOMAIN ws :
          /\ ws[w].plan = "free"
          /\ ws[w].billing_customer_id = NoneStr
          /\ ws[w].upgraded_at = 0
          /\ SuccessSessionsFor(w) # {}

--------------------------------------------------------------------------
(* Claims on the pro-plan guard (SpecPlan) *)

\* The guard lets a request for workspace w through, whatever kind of response
\* the caller expects.
PassesGuard(table, w) ==
    \A is_json \in BOOLEAN, api_path \in BOOLEAN :
        requires_pro_plan(table, w, is_json, api_path).status = 200

FailsGuard(table, w) ==
    \A is_json \in BOOLEAN, api_path \in BOOLEAN :
        requires_pro_plan(table, w, is_json, api_path).status \in {402, 302}

\* C23: the plan-gate round trip: a free workspace fails the pro-plan guard;
\* after a successful handle_successful_payment whose metadata names it, it
\* passes the guard; after a subsequent first-seen subscription-cancelled event
\* for its billing_customer_id (held by no other workspace, and committing), its
\* plan is free and it fails the guard again.
C23_PlanGateRoundTrip ==
    \A w \in DOMAIN ws : \A f \in SuccessSessionsFor(w) :
        ws[w].plan = "free" =>
        LET paid == handle_successful_payment(ws, f, TRUE, now + 1) IN
        /\ FailsGuard(ws, w)
        /\ paid.ret = w
        /\ PassesGuard(paid.ws, w)
        /\ \A in \in CustomerEvents({SubscriptionCancelled}) :
              LET cancelled ==
                      WebhookAgain([ws |-> paid.ws, billing_events |-> billing_events], in)
              IN  (/\ in.event.customer = paid.ws[w].billing_customer_id
                   /\ WorkspacesByCustomer(paid.ws, in.event.customer) = {w}
                   /\ ~BillingEventRejected(billing_events, in.event.id)
                   /\ in.commit_ok)
                  => /\ cancelled.status = 200
                     /\ cancelled.ws[w].plan = "free"
                     /\ FailsGuard(cancelled.ws, w)

\* A request for a workspace that was upgraded and then cancelled was refused
\* by the guard.
C23_Witness ==
    /\ last.op = "pro_feature" /\ last.status \in {402, 302}
    /\ last.workspace \in DOMAIN ws
    /\ ws[last.workspace].plan = "free"
    /\ ws[last.workspace].upgraded_at # 0
    /\ ws[last.workspace].billing_customer_id \in Customers
    /\ \E i \in DOMAIN billing_events :
          billing_events[i].event_type = SubscriptionCancelled

\* C24: the pro-plan guard runs the wrapped handler only when a workspace has
\* been resolved and its plan is pro; with no resolved workspace it returns
\* 404; with a workspace that is not pro it returns 402 when the request is
\* JSON or its path starts with /api/, and otherwise redirects to the upgrade
\* flow of that workspace.
C24_ProPlanGuard ==
    \A w \in DOMAIN ws \cup {NoneId}, is_json \in BOOLEAN, api_path \in BOOLEAN :
        LET p == requires_pro_plan(ws, w, is_json, api_path) IN
        /\ p.outcome = "handler" <=> (w # NoneId /\ ws[w].plan = "pro")
        /\ p.status = 200 <=> p.outcome = "handler"
        /\ w = NoneId => p.status = 404
        /\ (w # NoneId /\ ws[w].plan # "pro")
           => IF is_json \/ api_path
              THEN p.status = 402
              ELSE p.status = 302 /\ p.outcome = "to_upgrade" /\ p.workspace = w

\* A page request for a workspace that is not pro was redirected to the upgrade
\* flow while the other workspace is pro.
C24_Witness ==
    /\ last.op = "pro_feature" /\ last.status = 302 /\ last.outcome = "to_upgrade"
    /\ last.workspace \in DOMAIN ws
    /\ ~is_pro(ws[last.workspace])
    /\ \E w \in DOMAIN ws : is_pro(ws[w])

--------------------------------------------------------------------------
(* Claims on member management (SpecMembers) *)

\* C25: adding a member is atomic: after add_workspace_member either the new
\* User and its Membership both persist (200) or neither does; when adding the
\* membership fails with IntegrityError or ValueError the User row created
\* before it is not persisted and 400 is returned.
C25_AddMemberAtomic ==
    \A u \in DOMAIN users, w \in WorkspaceIds, item \in MemberItems,
       add_outcome \in AddMemberOutcomes, commit_ok \in BOOLEAN :
        LET r == add_workspace_member(u, w, item, add_outcome, commit_ok)
            id == NewUserId(users)
            reaches_add == /\ require_workspace_access(u, w, "admin").status = 200
                           /\ item.has_fields
                           /\ ExistingUsers(users, item) = {}
        IN  /\ \/ r.tables = Tables(users, memberships)
               \/ /\ r.resp.status = 200
                  /\ DOMAIN r.tables.users = DOMAIN users \cup {id}
                  /\ \A x \in DOMAIN users : r.tables.users[x] = users[x]
                  /\ r.tables.memberships =
                         memberships \cup {MembershipRow(id, w, item.role)}
            /\ (reaches_add /\ add_outcome # "ok")
               => /\ r.resp.status = 400
                  /\ r.tables = Tables(users, memberships)

\* The addition of a membership failed after the user had been flushed: the
\* request was answered 400 and no row for the user exists, though the same
\* request would add both rows were add_member to succeed.
C25_Witness ==
    /\ last.op = "add_workspace_member" /\ last.outcome = "add_failed"
    /\ last.status = 400
    /\ \E item \in MemberItems :
          LET r == add_workspace_member(last.user, last.workspace, item, "ok", TRUE)
          IN  /\ r.resp.status = 200
              /\ Cardinality(DOMAIN r.tables.users) = Cardinality(DOMAIN users) + 1

\* C26: add_workspace_member rejects with 400, creating no User and no
\* Membership, every request whose email or whose username equals that of an
\* existing user, including when the email is one existing user's and the
\* username another's.
C26_DuplicateRejected ==
    [][\A u \in DOMAIN users, w \in WorkspaceIds, item \in MemberItems :
          (/\ AddMemberCall(u, w, item, "ok", TRUE)
           /\ require_workspace_access(u, w, "admin").status = 200
           /\ item.has_fields
           /\ ExistingUsers(users, item) # {})
          => /\ last'.status = 400
             /\ users' = users
             /\ memberships' = memberships]_vars

--------------------------------------------------------------------------
(* Claims on API key revocation (SpecAccess) *)

\* C28: revocation is a soft, irreversible flag: a successful revoke_api_key of
\* key K keeps K's row, with is_active = false and nothing else changed; a key
\* that is inactive is absent from every list_api_keys result, stays inactive
\* under every create, list and revoke request, and revoking it again leaves
\* the table unchanged.
C28_RevocationSoftIrreversible ==
    \A u \in DOMAIN users, w \in WorkspaceIds :
        LET listed == list_api_keys(api_keys, u, w) IN
        /\ \A k \in DOMAIN api_keys :
              ~api_keys[k].is_active => k \notin listed.resp.data
        /\ listed.keys = api_keys
        /\ \A has_name \in BOOLEAN :
              LET created == create_api_key(api_keys, u, w, has_name) IN
              \A k \in DOMAIN api_keys : created.keys[k] = api_keys[k]
        /\ \A k \in KeyIds :
              LET revoked == revoke_api_key(api_keys, u, w, k) IN
              /\ DOMAIN revoked.keys = DOMAIN api_keys
              /\ \A j \in DOMAIN api_keys :
                    /\ ~api_keys[j].is_active => revoked.keys[j] = api_keys[j]
                    /\ revoked.keys[j].workspace_id = api_keys[j].workspace_id
                    /\ j # k => revoked.keys[j] = api_keys[j]
              /\ revoked.resp.status = 200
                 => /\ k \in DOMAIN api_keys
                    /\ ~revoked.keys[k].is_active
                    /\ revoke_api_key(revoked.keys, u, w, k).keys = revoked.keys
                    /\ \A v \in DOMAIN users :
                          k \notin list_api_keys(revoked.keys, v, w).resp.data

\* A key was revoked: its row is still there, inactive, next to an active key
\* of the same workspace that a member can list.
C28_Witness ==
    /\ last.op = "revoke_api_key" /\ last.status = 200
    /\ \E k \in DOMAIN api_keys, j \in DOMAIN api_keys :
          /\ ~api_keys[k].is_active
          /\ api_keys[k].workspace_id = last.workspace
          /\ api_keys[j].is_active
          /\ api_keys[j].workspace_id = last.workspace

--------------------------------------------------------------------------
(* Claims on API key secrecy (SpecKeys) *)

FullKeys == {generate_key(t).full_key : t \in Tokens}

\* C27: the full API key value is never persisted and is disclosed exactly
\* once: no APIKey row and no list response holds a full key in any field (the
\* row stores prefix and hash, the list shows the prefix), a revoke response
\* carries nothing, and the response of the create call carries the full key it
\* generated.
C27_KeySecrecy ==
    /\ \A k \in DOMAIN api_keys :
          {api_keys[k].name, api_keys[k].prefix, api_keys[k].key_hash} \cap FullKeys = {}
    /\ \A u \in DOMAIN users, w \in WorkspaceIds :
          /\ \A d \in api_key_list(api_keys, u, w).resp.data :
                {d.name, d.prefix} \cap FullKeys = {}
          /\ \A k \in KeyIds : revoke_api_key(api_keys, u, w, k).resp.data = {}
          /\ \A name \in KeyNames \cup {<<>>}, token \in Tokens :
                LET r == api_key_create(api_keys, u, w, name, token)
                    row == r.keys[Len(r.keys)]
                IN  IF r.resp.status # 200
                    THEN r.resp.data = {} /\ r.keys = api_keys
                    ELSE
                       /\ \A b \in r.resp.data : b.key = generate_key(token).full_key
                       /\ r.resp.data # {}
                       /\ row.key_hash = sha256(generate_key(token).full_key)
                       /\ {row.name, row.prefix, row.key_hash} \cap FullKeys = {}

\* A list response showed the keys of a workspace, one of them created with a
\* full key that the response does not show.
C27_Witness ==
    /\ last.op = "list_api_keys" /\ last.status = 200
    /\ \E d \in last.data, t \in Tokens :
          /\ d.prefix = generate_key(t).prefix
          /\ d.prefix # generate_key(t).full_key
          /\ api_keys[d.id].key_hash = sha256(generate_key(t).full_key)

--------------------------------------------------------------------------
(* Claims on user deletion (SpecDelete) *)

\* No row of the three tables names user U or a workspace U owned.
Forgotten(id, owned) ==
    /\ id \notin DOMAIN users
    /\ \A w \in DOMAIN ws : ws[w].owner_id # id /\ w \notin owned
    /\ \A m \in memberships : m.user_id # id /\ m.workspace_id \notin owned
    /\ \A k \in DOMAIN api_keys :
          api_keys[k].user_id # id /\ api_keys[k].workspace_id \notin owned

\* C29: user deletion keeps referential integrity: after a successful
\* api_user_delete of user U no Workspace is owned by U, no Membership and no
\* APIKey refers to U or to a workspace U owned, and every remaining workspace
\* has an existing owner; a deletion that answers with an error deletes nothing.
C29_DeletionKeepsIntegrity ==
    [][\A caller \in DOMAIN users, id \in DOMAIN users, commit_ok \in BOOLEAN,
          audit_ok \in BOOLEAN, enforced \in BOOLEAN :
          (/\ Managed(api_user_delete(caller, id, commit_ok, audit_ok), enforced)
           /\ last'.op = "api_user_delete")
          => IF last'.status = 200
             THEN /\ Forgotten(id, {w \in DOMAIN ws : ws[w].owner_id = id})'
                  /\ Intact(users, memberships, ws, api_keys)'
             ELSE /\ users' = users
                  /\ ws' = ws
                  /\ memberships' = memberships
                  /\ api_keys' = api_keys]_vars

\* The part of C29 that the handler keeps: whatever the answer, the tables stay
\* referentially intact, and a deletion that went through left no row naming
\* the user or a workspace the user owned.
C29_TablesStayIntact ==
    /\ Intact(users, memberships, ws, api_keys)
    /\ \A caller \in DOMAIN users, id \in DOMAIN users, audit_ok \in BOOLEAN :
          LET r == api_user_delete(caller, id, TRUE, audit_ok)
              owned == {w \in DOMAIN ws : ws[w].owner_id = id}
          IN  users[caller].is_superadmin
              => /\ Intact(r.users, r.memberships, r.ws, r.api_keys)
                 /\ id \notin DOMAIN r.users
                 /\ \A w \in DOMAIN r.ws : r.ws[w].owner_id # id
                 /\ \A m \in r.memberships : m.user_id # id /\ m.workspace_id \notin owned
                 /\ \A k \in DOMAIN r.api_keys :
                       r.api_keys[k].user_id # id
                       /\ r.api_keys[k].workspace_id \notin owned

--------------------------------------------------------------------------
(* Claims on session records (SpecSessions) *)

\* C30: session upsert: there is at most one Session row per session_token; a
\* create_session call with an existing token refreshes that row (user, IP,
\* metadata, last_active, is_active = true) and inserts nothing, and a call with
\* a new token inserts exactly one active row and changes no other.
C30_SessionUpsert ==
    /\ \A i \in DOMAIN user_sessions, j \in DOMAIN user_sessions :
          user_sessions[i].session_token = user_sessions[j].session_token => i = j
    /\ \A user \in DOMAIN users, session_token \in SessionTokens,
          ip_address \in IpAddresses, meta \in Metas, t \in ClockReads :
          LET r == create_session(user_sessions, user, session_token, ip_address, meta, t)
              row == SessionRow(user, session_token, ip_address, meta, t)
              n == Len(user_sessions)
          IN  IF \E i \in DOMAIN user_sessions :
                     user_sessions[i].session_token = session_token
              THEN /\ r.outcome = "refreshed"
                   /\ Len(r.table) = n
                   /\ \A i \in DOMAIN user_sessions :
                         r.table[i] = IF user_sessions[i].session_token = session_token
                                      THEN row ELSE user_sessions[i]
              ELSE /\ r.outcome = "inserted"
                   /\ r.table = Append(user_sessions, row)
                   /\ row.is_active

\* An authentication with the token of a deactivated row of another user
\* refreshed that row, with the second token's row in the table.
C30_Witness ==
    /\ last.op = "user_authenticated" /\ last.outcome = "refreshed"
    /\ Len(user_sessions) = 2
    /\ \E i \in last.data :
          /\ user_sessions[i].user_id = last.user
          /\ user_sessions[i].is_active
          /\ user_sessions[i].last_active = now
          /\ now > 0
    /\ \E j \in DOMAIN user_sessions : ~user_sessions[j].is_active

--------------------------------------------------------------------------
(* Claims on the audit trail (SpecUsers) *)

\* C31: Activity records are append-only: whatever operation runs (user update
\* and user deletion included), every Activity row written before it is still
\* present, unchanged, after it.
C31_ActivitiesAppendOnly ==
    [][activities \subseteq activities']_vars

--------------------------------------------------------------------------
(* Claims on the email of a user (SpecProfile) *)

\* C32: a user's email cannot be changed: profile_update answers 400 to every
\* request with an email field and then changes nothing, not even a name sent
\* with it, and no profile_update and no api_user_update alters the email of an
\* existing user.
C32_EmailNeverChanges ==
    /\ \A u \in DOMAIN users : users[u].email = u
    /\ \A u \in DOMAIN users, data \in ProfileData, commit_ok \in BOOLEAN :
          LET r == profile_update(u, data, commit_ok) IN
          /\ data.has_email
             => /\ r.resp.status = 400
                /\ r.users = users
                /\ r.memberships = memberships /\ r.ws = ws /\ r.api_keys = api_keys
          /\ \A v \in DOMAIN users : r.users[v].email = users[v].email
    /\ \A caller \in DOMAIN users, id \in DOMAIN users, item \in ProfileItems,
          commit_ok \in BOOLEAN :
          LET r == api_user_update(caller, id, item, commit_ok) IN
          \A v \in DOMAIN users : r.users[v].email = users[v].email

\* A profile request carrying an email and a new name was refused after an
\* earlier request had changed a name.
C32_Witness ==
    /\ last.op = "profile_update" /\ last.status = 400
    /\ last.outcome = "email_cannot_be_changed"
    /\ users[last.user].name = "n1"
    /\ \E v \in DOMAIN users : users[v].tag = "t1" /\ users[v].email = v

--------------------------------------------------------------------------
(* Claims on the order of the steps of a webhook request (SpecRace) *)

\* The steps a request can take, as pairs of positions.
OrderedSteps ==
    {<<"idle", "insert">>, <<"insert", "commit">>, <<"insert", "done">>,
     <<"commit", "dispatch">>, <<"commit", "done">>, <<"dispatch", "done">>}

\* C33: within one webhook request the steps verify, deduplicate-insert,
\* dispatch, mutate happen strictly in that order: a request only moves forward
\* through them, every change of a workspace is made by the dispatch step of a
\* verified request whose BillingEvent row for the same event id was committed
\* before, and a request dispatches once, taking one branch that changes at
\* most one workspace.
C33_StepsInOrder ==
    [][/\ \A r \in Requests :
             /\ reqs'[r].pc # reqs[r].pc => <<reqs[r].pc, reqs'[r].pc>> \in OrderedSteps
             /\ reqs[r].pc = "done" => reqs'[r] = reqs[r]
             /\ reqs'[r].pc = "dispatch"
                => RowsFor(billing_events', reqs'[r].in.event.id) # {}
       /\ ws' # ws
          => \E r \in Requests :
                /\ reqs[r].pc = "dispatch" /\ reqs'[r].pc = "done"
                /\ reqs[r].in.auth = "good"
                /\ RowsFor(billing_events, reqs[r].in.event.id) # {}
                /\ reqs'[r].outcome \in {"checkout", "cancel", "payment_failed"}
                /\ \A q \in Requests \ {r} : reqs'[q] = reqs[q]
       /\ Cardinality({w \in DOMAIN ws : ws'[w] # ws[w]}) <= 1
       /\ dispatched' # dispatched
          => \E r \in Requests : reqs[r].pc = "dispatch" /\ reqs'[r].pc = "done"]_vars

\* A request that committed its BillingEvent row has dispatched the checkout
\* and upgraded the workspace, and a request with the same event id was
\* answered as a duplicate.
C33_Witness ==
    /\ \E r \in Requests :
          /\ reqs[r].pc = "done" /\ reqs[r].outcome = "checkout"
          /\ RowsFor(billing_events, reqs[r].in.event.id) # {}
          /\ \E q \in Requests \ {r} :
                /\ reqs[q].pc = "done" /\ reqs[q].in.event.id = reqs[r].in.event.id
                /\ reqs[q].outcome \in {"duplicate", "duplicate_at_commit"}
    /\ ws[1].plan = "pro"

--------------------------------------------------------------------------
(* Claims on the replay of a checkout session (Spec) *)

\* C34: a checkout session upgrades a workspace at most once: when workspace W
\* was upgraded through a session (W carries the session's customer id and an
\* upgrade stamp) and has been downgraded to free since, a later
\* /billing/success call by any user for that session leaves W's plan free.
C34_SessionUpgradesOnce ==
    [][\A u \in DOMAIN users, fetched \in Fetchable \ {FetchRaises},
          commit_ok \in BOOLEAN, w \in WorkspaceIds :
          (/\ BillingSuccessCall(u, TRUE, fetched, commit_ok)
           /\ ParseInt(fetched.workspace_id) = w
           /\ fetched.customer = ws[w].billing_customer_id
           /\ ws[w].upgraded_at # 0
           /\ ws[w].plan = "free")
          => ws'[w].plan = "free"]_vars

--------------------------------------------------------------------------
(* Claims on redelivery after a failed dispatch (SpecRetry) *)

\* C35: partial failures do not lose an upgrade delivered by webhook: when a
\* delivery of the checkout-completed event has recorded its BillingEvent row
\* and its dispatch failed, so that the workspace is not pro, and the provider
\* keeps redelivering the event with the fetch and the commit working again,
\* the workspace eventually becomes pro.
C35_UpgradeNotLost ==
    (/\ RowsFor(billing_events, reqs.checkout.id) # {}
     /\ ~is_pro(ws[reqs.workspace]))
    ~> is_pro(ws[reqs.workspace])

--------------------------------------------------------------------------
(* Claims on the acknowledgement of undispatched events (Spec) *)

\* C36: a verified webhook of a recognized type is acknowledged 200 without
\* being dispatched only if a BillingEvent row with its event id existed before
\* the request: an insert that fails for another reason, such as a missing
\* event id, is not taken for a duplicate.
C36_OnlyDuplicatesSkipped ==
    [][\A in \in CustomerEvents((IF provider = "stripe" THEN StripeTypes
                                 ELSE ChargebeeTypes) \ {"other"}) :
          (/\ StripeDelivery(in) \/ ChargebeeDelivery(in)
           /\ Webhook(in).outcome # "unverified"
           /\ Webhook(in).dispatched_id = NoneStr
           /\ last'.status = 200)
          => RowsFor(billing_events, in.event.id) # {}]_vars

--------------------------------------------------------------------------
(* Claims on what a downgrade leaves alone (Spec) *)

\* C37: downgrades change only the plan of the matching workspace: a
\* subscription-cancelled or payment-failed event for customer C leaves
\* billing_customer_id, upgraded_at, owner and name of every workspace as they
\* were, leaves every workspace whose billing_customer_id differs from C
\* entirely unchanged, changes a plan only to free, and changes no workspace
\* when none matches C.
C37_DowngradeFrame ==
    \A in \in CustomerEvents({SubscriptionCancelled, PaymentFailed}) :
        LET r == Webhook(in)
            found == WorkspacesByCustomer(ws, in.event.customer)
        IN  /\ DOMAIN r.ws = DOMAIN ws
            /\ \A w \in DOMAIN ws :
                  /\ r.ws[w].billing_customer_id = ws[w].billing_customer_id
                  /\ r.ws[w].upgraded_at = ws[w].upgraded_at
                  /\ r.ws[w].owner_id = ws[w].owner_id
                  /\ r.ws[w].name = ws[w].name
                  /\ r.ws[w].plan \in {ws[w].plan, "free"}
                  /\ ws[w].billing_customer_id # in.event.customer => r.ws[w] = ws[w]
            /\ found = {} => r.ws = ws

\* A downgrade was processed: the workspace it matched is free and still
\* carries its customer id and its upgrade stamp, and the workspace of another
\* customer is still pro.
C37_Witness ==
    /\ last.op = "webhook" /\ last.outcome \in {"cancel", "payment_failed"}
    /\ last.status = 200
    /\ \E w \in DOMAIN ws, v \in DOMAIN ws :
          /\ ws[w].plan = "free" /\ ws[w].upgraded_at # 0
          /\ ws[w].billing_customer_id # NoneStr
          /\ ws[v].plan = "pro"
          /\ ws[v].billing_customer_id # ws[w].billing_customer_id

--------------------------------------------------------------------------
(* Concurrent reconciliation of one payment (SpecReconcile)                *)
(* The browser's /billing/success request and the checkout-completed       *)
(* webhook run handle_successful_payment for the same Stripe session, each *)
(* in its own database session; their statements interleave.               *)

Runners == {"redirect", "webhook"}

Runner(pc, outcome) == [pc |-> pc, outcome |-> outcome]

RunnerMoves(p, pc, outcome) ==
    reqs' = [reqs EXCEPT !.run[p] = Runner(pc, outcome)]

\* Mutant: the commit loses the upgrade's writes.
UpgradeCommitDropped(table, id, customer, t) == table

\* billing.py:99-103: the UPDATE of the three assigned columns on the row as
\* the store holds it when the transaction commits
UpgradeCommitted(table, id, customer, t) ==
    [table EXCEPT ![id] = UpgradeRow(table[id], customer, t)]

\* webhooks.py:34-42: the webhook records the delivery before it dispatches
RecordDelivery ==
    /\ reqs.run["webhook"].pc = "record"
    /\ billing_events' = Append(billing_events,
                                BillingEventRow([id |-> "evt_1", type |-> CheckoutCompleted]))
    /\ RunnerMoves("webhook", "fetch", "none")
    /\ UNCHANGED <<provider, config, ws, now, dispatched, users, memberships, api_keys,
                   sess, user_sessions, activities, last>>

\* billing.py:70-90: the session is fetched from the provider; the fetch may
\* raise, a fetched session is complete, paid and names the workspace.
FetchSession(p) ==
    /\ reqs.run[p].pc = "fetch"
    /\ \E fetch_ok \in BOOLEAN :
          IF fetch_ok /\ StripeSessionSucceeded(reqs.session)
          THEN RunnerMoves(p, "load", "none")
          ELSE RunnerMoves(p, "done", "fetch_failed")
    /\ UNCHANGED <<provider, config, ws, billing_events, now, dispatched, users,
                   memberships, api_keys, sess, user_sessions, activities, last>>

\* billing.py:92-97: db.session.get and the is_pro test on the row read
LoadWorkspace(p) ==
    /\ reqs.run[p].pc = "load"
    /\ IF AlreadyUpgraded(ws[ParseInt(reqs.session.workspace_id)])
       THEN RunnerMoves(p, "done", "already_pro")
       ELSE RunnerMoves(p, "write", "none")
    /\ UNCHANGED <<provider, config, ws, billing_events, now, dispatched, users,
                   memberships, api_keys, sess, user_sessions, activities, last>>

\* billing.py:99-110: the three assignments and the commit, or the rollback
CommitUpgrade(p) ==
    /\ reqs.run[p].pc = "write"
    /\ now < MaxTime
    /\ \E commit_ok \in BOOLEAN :
          IF commit_ok
          THEN /\ ws' = UpgradeCommitted(ws, ParseInt(reqs.session.workspace_id),
                                         reqs.session.customer, now + 1)
               /\ now' = now + 1
               /\ RunnerMoves(p, "done", "upgraded")
          ELSE /\ UNCHANGED <<ws, now>>
               /\ RunnerMoves(p, "done", "rolled_back")
    /\ UNCHANGED <<provider, config, billing_events, dispatched, users, memberships,
                   api_keys, sess, user_sessions, activities, last>>

InitReconcile ==
    /\ provider = "stripe"
    /\ config = AppConfig(TRUE, FALSE, FALSE, TRUE, FALSE)
    /\ ws = [w \in WorkspaceIds |-> FreeWorkspace(w)]
    /\ billing_events = <<>>
    /\ now = 0
    /\ dispatched = [e \in EventIds |-> 0]
    /\ users = [u \in {1} |-> UserRow(TRUE)]
    /\ memberships = {}
    /\ api_keys = <<>>
    /\ sess = [u \in UserIds |-> NoneId]
    /\ user_sessions = <<>>
    /\ activities = {}
    /\ \E w \in {"1", "2"}, c \in Customers, p \in {"paid", "no_payment_required"} :
          reqs = [session |-> StripeSession("complete", p, c, w),
                  run |-> [r \in Runners |->
                             Runner(IF r = "webhook" THEN "record" ELSE "fetch", "none")]]
    /\ last = NoRequest

NextReconcile ==
    RecordDelivery \/ \E p \in Runners : FetchSession(p) \/ LoadWorkspace(p) \/ CommitUpgrade(p)

SpecReconcile == InitReconcile /\ [][NextReconcile]_vars

--------------------------------------------------------------------------
(* Claims on concurrent reconciliation (SpecReconcile) *)

\* The workspace row one execution of handle_successful_payment for the
\* session leaves, starting from the free workspace.
SingleExecution ==
    handle_successful_payment([w \in WorkspaceIds |-> FreeWorkspace(w)], reqs.session,
                              TRUE, 1).ws[ParseInt(reqs.session.workspace_id)]

\* C38: when /billing/success and the checkout-completed webhook run
\* handle_successful_payment for the same session concurrently, then under
\* every interleaving, once a run has upgraded the workspace or found it
\* upgraded, the workspace has plan pro and the session's customer id, the same
\* plan and customer id as after a single execution; a pro workspace never
\* carries another customer id, and no other workspace changes.
C38_ConcurrentReconcileSafe ==
    LET id == ParseInt(reqs.session.workspace_id) IN
    /\ \A w \in DOMAIN ws : w # id => ws[w] = FreeWorkspace(w)
    /\ is_pro(ws[id]) => ws[id].billing_customer_id = reqs.session.customer
    /\ (\E p \in Runners : reqs.run[p].outcome \in {"upgraded", "already_pro"})
          => /\ ws[id].plan = "pro"
             /\ ws[id].billing_customer_id = reqs.session.customer
             /\ ws[id].plan = SingleExecution.plan
             /\ ws[id].billing_customer_id = SingleExecution.billing_customer_id

\* Both runs read the workspace as free before either committed, both
\* committed the upgrade, and the workspace is pro.
C38_Witness ==
    /\ \A p \in Runners : reqs.run[p].pc = "done" /\ reqs.run[p].outcome = "upgraded"
    /\ is_pro(ws[ParseInt(reqs.session.workspace_id)])
    /\ now = 2

--------------------------------------------------------------------------
(* Following the billing redirects (SpecRedirects)                         *)
(* A browser opens /workspace/upgrade or /workspace/billing and follows    *)
(* each redirect that names the other endpoint; a payment may be           *)
(* reconciled in another tab between two requests.                         *)

MaxHops == 4

Redirecting == {"upgrade", "billing"}
Landed == {"checkout", "portal", "settings", "error"}

Browser(user, start, at, hops) ==
    [user |-> user, start |-> start, at |-> at, hops |-> hops]

\* Where the browser is after the response: url_for("portal.billing_portal")
\* (views.py:514), url_for("portal.workspace_settings") (:516),
\* checkout_session.url (:522), portal_session.url (:540),
\* url_for("portal.upgrade_workspace") (:554); every other response is a page
\* or an error the browser stays on.
Target(resp) ==
    CASE resp.outcome = "to_billing_portal" -> "billing"
      [] resp.outcome = "to_upgrade" -> "upgrade"
      [] resp.outcome = "to_settings" -> "settings"
      [] resp.outcome = "to_checkout" -> "checkout"
      [] resp.outcome = "to_portal" -> "portal"
      [] OTHER -> "error"

\* The user opens one of the two endpoints
Visit ==
    /\ reqs.at \notin Redirecting
    /\ \E u \in DOMAIN users, e \in Redirecting : reqs' = Browser(u, e, e, 0)
    /\ UNCHANGED <<provider, config, ws, billing_events, now, dispatched, users,
                   memberships, api_keys, sess, user_sessions, activities, last>>

\* The browser requests the endpoint it is at and follows the response
Follow ==
    /\ reqs.at \in Redirecting
    /\ reqs.hops < MaxHops
    /\ LET resp == IF reqs.at = "upgrade" THEN upgrade_workspace(reqs.user)
                   ELSE billing_portal(reqs.user)
       IN  /\ last' = resp
           /\ reqs' = [reqs EXCEPT !.at = Target(resp), !.hops = @ + 1]
    /\ UNCHANGED <<provider, config, ws, billing_events, now, dispatched, users,
                   memberships, api_keys, sess, user_sessions, activities>>

\* A workspace in each state of plan and customer; an upgrade or a customer on
\* record dates from time 1.
BilledWorkspace(owner, plan, customer) ==
    [FreeWorkspace(owner) EXCEPT !.plan = plan, !.billing_customer_id = customer,
                                 !.upgraded_at = IF plan = "pro" THEN 1 ELSE 0]

InitRedirects ==
    /\ provider = "stripe"
    /\ \E k \in BOOLEAN : config = AppConfig(TRUE, TRUE, TRUE, k, FALSE)
    /\ \E plan \in [WorkspaceIds -> {"free", "pro"}],
          customer \in [WorkspaceIds -> {NoneStr, "cus_2"}] :
          ws = [w \in WorkspaceIds |->
                  BilledWorkspace(IF w = 1 THEN 2 ELSE 1, plan[w], customer[w])]
    /\ billing_events = <<>>
    /\ now = 1
    /\ dispatched = [e \in EventIds |-> 0]
    /\ users = [u \in UserIds |-> UserRow(u = 1)]
    /\ memberships = {MembershipRow(2, 1, "admin"), MembershipRow(2, 2, "member")}
    /\ api_keys = <<>>
    /\ sess \in [UserIds -> WorkspaceIds \cup {NoneId}]
    /\ user_sessions = <<>>
    /\ activities = {}
    /\ reqs = Browser(1, "none", "idle", 0)
    /\ last = NoRequest

NextRedirects == Visit \/ Follow \/ PaidReturn

\* A browser follows a redirect response at once.
SpecRedirects == InitRedirects /\ [][NextRedirects]_vars /\ WF_vars(Follow)

--------------------------------------------------------------------------
(* Claims on the billing redirects (SpecRedirects) *)

\* C39: the redirects between /workspace/upgrade and /workspace/billing
\* terminate for every workspace state (plan free or pro, customer id set or
\* null): a browser that opened either endpoint reaches a provider checkout, a
\* provider portal, the settings page or an error response after fewer than
\* MaxHops requests, never a redirect loop; and the response that creates a
\* checkout session is never given for a workspace that is pro.
C39_RedirectsTerminate ==
    /\ [](reqs.hops < MaxHops \/ reqs.at \in Landed)
    /\ []((last.op = "upgrade_workspace" /\ last.outcome = "to_checkout")
             => ~is_pro(ws[last.workspace]))
    /\ (reqs.at \in Redirecting) ~> (reqs.at \in Landed)

\* The browser opened /workspace/billing for a pro workspace without a
\* customer id, was sent to /workspace/upgrade and from there to the settings
\* page.
C39_Witness ==
    /\ reqs.start = "billing" /\ reqs.at = "settings" /\ reqs.hops = 2
    /\ last.op = "upgrade_workspace" /\ last.outcome = "to_settings"
    /\ is_pro(ws[last.workspace]) /\ ws[last.workspace].billing_customer_id = NoneStr

==========================================================================
